---------------------------- MODULE Spec2Model ----------------------------
(***************************************************************************)
(* The transaction wire codec of primitives/transaction.h: the shared      *)
(* SerializeTransaction routine (read and write paths), the component      *)
(* codecs it calls (CTxIn, CTxOutValue, CTxOut, CTxOutWitnessSerializer,   *)
(* CTxInWitness, CTxWitness) and the objects it fills.                     *)
(*                                                                         *)
(* A stream is a sequence of bytes (0..255).  Every fixed-width integer    *)
(* field of an object (int32_t nVersion, CAmount nTxFee, uint32_t n, ...)  *)
(* is held as its little-endian two's-complement memory image, the bytes   *)
(* READWRITE copies to and from the stream; a uint256 is its 32 bytes.     *)
(***************************************************************************)
EXTENDS Integers, Sequences, FiniteSets, TLC

\* ------------------------------------------------------------- constants

SERIALIZE_TRANSACTION_NO_WITNESS == 1073741824
SERIALIZE_BITCOIN_BLOCK_OR_TX == 536870912
TX_FEE_BITCOIN_TX_FLAG == -42
nExplicitSize == 9
nCommittedSize == 33

\* Widths in bytes of the fixed-width fields READWRITE copies.
SizeInt32 == 4
SizeInt64 == 8
SizeUint256 == 32

\* ReadCompactSize: markers of the 2, 4 and 8 byte forms.
CompactSize16 == 253
CompactSize32 == 254
CompactSize64 == 255

\* The errors a read or a write ends with; NoError when it completes.
NoError == "none"
ErrEndOfData == "CDataStream::read(): end of data"
ErrNonCanonical == "non-canonical ReadCompactSize()"
ErrTooLarge == "ReadCompactSize(): size too large"
ErrSuperfluousWitness == "Superfluous witness record"
ErrSuperfluousOutputWitness == "Superfluous output witness record"
ErrUnknownOptionalData == "Unknown transaction optional data"
ErrNotAmount == "CTxOutValue::GetAmount(): not an amount"
ErrAssertWitSize == "assert(tx.wit.vtxinwit.size() <= tx.vin.size())"

\* ------------------------------------------------------- memory images

RECURSIVE LE(_, _)
\* The little-endian two's-complement image of integer v in w bytes.
LE(v, w) == IF w = 0 THEN <<>> ELSE <<v % 256>> \o LE(v \div 256, w - 1)

RECURSIVE Reverse(_)
Reverse(s) == IF s = <<>> THEN <<>> ELSE Reverse(Tail(s)) \o <<Head(s)>>

RECURSIVE AllZero(_)
AllZero(s) == IF s = <<>> THEN TRUE ELSE Head(s) = 0 /\ AllZero(Tail(s))

Int32(v) == LE(v, SizeInt32)
Int64(v) == LE(v, SizeInt64)
Uint256(v) == LE(v, SizeUint256)

\* ------------------------------------------------------------ the objects

\* CTxOutValue::SetNull
CTxOutValue_SetNull ==
  [vchCommitment |-> <<255>>, vchRangeproof |-> <<>>, vchNonceCommitment |-> <<>>]

\* CTxOutValue::IsNull
CTxOutValue_IsNull(v) == v.vchCommitment[1] = 255

\* CTxOutValue::IsAmount
IsAmount(v) == v.vchCommitment[1] = 0 \/ v.vchCommitment[1] = 1

\* CTxOutValue::IsInBitcoinTransaction
IsInBitcoinTransaction(v) == v.vchCommitment[1] = 0

\* CTxOutValue::GetAmount: the CAmount image of the big-endian payload.
GetAmount(v) == Reverse(SubSeq(v.vchCommitment, 2, nExplicitSize))

\* CTxOutValue::SetToAmount
SetToAmount(v, nAmount) ==
  [v EXCEPT !.vchCommitment = <<1>> \o Reverse(nAmount)]

\* CTxOutValue::SetToBitcoinAmount
SetToBitcoinAmount(v, nAmount) ==
  [v EXCEPT !.vchCommitment = <<0>> \o Reverse(nAmount)]

\* CTxOut::CTxOut() / CTxOut::SetNull
CTxOut_SetNull == [nValue |-> CTxOutValue_SetNull, scriptPubKey |-> <<>>]

\* CTxOutWitnessSerializer::IsNull
CTxOutWitnessSerializer_IsNull(out) ==
  out.nValue.vchRangeproof = <<>> /\ out.nValue.vchNonceCommitment = <<>>

\* CTxInWitness::IsNull (CScriptWitness::IsNull: the stack is empty)
CTxInWitness_IsNull(w) == w = <<>>

\* CTxWitness::IsNull
CTxWitness_IsNull(vtxinwit) ==
  \A n \in 1..Len(vtxinwit) : CTxInWitness_IsNull(vtxinwit[n])

\* Resize leaving one entry more than asked for
Resize_OneMore(vtxinwit, n) ==
  [i \in 1..(n + 1) |-> IF i <= Len(vtxinwit) THEN vtxinwit[i] ELSE <<>>]

\* std::vector::resize on vtxinwit: truncate, or pad with CTxInWitness().
Resize(vtxinwit, n) ==
  [i \in 1..n |-> IF i <= Len(vtxinwit) THEN vtxinwit[i] ELSE <<>>]

\* ------------------------------------------------------------ write side

\* WriteCompactSize
WriteCompactSize(n) ==
  IF n < CompactSize16 THEN <<n>> ELSE <<CompactSize16>> \o LE(n, 2)

\* Serialize of a vector of unsigned char (a script, a proof, a stack item)
WriteBytes(v) == WriteCompactSize(Len(v)) \o v

RECURSIVE Concat(_)
\* the concatenation of a sequence of byte strings
Concat(ss) == IF ss = <<>> THEN <<>> ELSE Head(ss) \o Concat(Tail(ss))

\* COutPoint::SerializationOp and CTxIn::SerializationOp, writing
CTxIn_Write(in) ==
  in.prevout.hash \o in.prevout.n \o WriteBytes(in.scriptSig) \o in.nSequence

\* Serialize of std::vector<CTxIn>
WriteVin(vin) ==
  WriteCompactSize(Len(vin)) \o Concat([i \in 1..Len(vin) |-> CTxIn_Write(vin[i])])

\* CTxOutValue_Write emitting the buffer of a value that is no amount
CTxOutValue_Write_Unchecked(v, nVersion) ==
  IF (SERIALIZE_BITCOIN_BLOCK_OR_TX \in nVersion \/ IsInBitcoinTransaction(v))
     /\ IsAmount(v)
  THEN [err |-> NoError, out |-> GetAmount(v)]
  ELSE [err |-> NoError, out |-> v.vchCommitment]

\* CTxOutValue::SerializationOp, writing.  A byte string, or the error of
\* GetAmount when the value is no amount.
CTxOutValue_Write(v, nVersion) ==
  IF SERIALIZE_BITCOIN_BLOCK_OR_TX \in nVersion \/ IsInBitcoinTransaction(v)
  THEN IF IsAmount(v)
       THEN [err |-> NoError, out |-> GetAmount(v)]
       ELSE [err |-> ErrNotAmount, out |-> <<>>]
  ELSE [err |-> NoError, out |-> v.vchCommitment]

\* CTxOut::SerializationOp, writing
CTxOut_Write(out, nVersion) ==
  LET v == CTxOutValue_Write(out.nValue, nVersion)
  IN  [err |-> v.err, out |-> v.out \o WriteBytes(out.scriptPubKey)]

\* Serialize of std::vector<CTxOut>: stops at the first output that throws,
\* with the bytes of the outputs before it already emitted.
WriteVout(vout, nVersion) ==
  LET w == [i \in 1..Len(vout) |-> CTxOut_Write(vout[i], nVersion)]
      bad == {i \in 1..Len(vout) : w[i].err # NoError}
      stop == IF bad = {} THEN Len(vout) + 1
              ELSE CHOOSE i \in bad : \A j \in bad : i <= j
  IN  [err |-> IF bad = {} THEN NoError ELSE w[stop].err,
       out |-> WriteCompactSize(Len(vout))
               \o Concat([i \in 1..(stop - 1) |-> w[i].out])]

\* CTxInWitness::SerializationOp, writing: the vector of stack items
CTxInWitness_Write(w) ==
  WriteCompactSize(Len(w)) \o Concat([i \in 1..Len(w) |-> WriteBytes(w[i])])

\* CTxWitness::SerializationOp, writing: the entries, no count
CTxWitness_Write(vtxinwit) ==
  IF CTxWitness_IsNull(vtxinwit)
  THEN [err |-> ErrSuperfluousWitness, out |-> <<>>]
  ELSE [err |-> NoError,
        out |-> Concat([n \in 1..Len(vtxinwit) |-> CTxInWitness_Write(vtxinwit[n])])]

\* CTxOutWitnessSerializer_Write leaving out the record of an output that
\* has neither proof nor nonce
CTxOutWitnessSerializer_Write_SkippingNull(out, nVersion) ==
  IF SERIALIZE_BITCOIN_BLOCK_OR_TX \notin nVersion
     /\ ~CTxOutWitnessSerializer_IsNull(out)
  THEN WriteBytes(out.nValue.vchRangeproof) \o WriteBytes(out.nValue.vchNonceCommitment)
  ELSE <<>>

\* CTxOutWitnessSerializer::SerializationOp, writing
CTxOutWitnessSerializer_Write(out, nVersion) ==
  IF SERIALIZE_BITCOIN_BLOCK_OR_TX \notin nVersion
  THEN WriteBytes(out.nValue.vchRangeproof) \o WriteBytes(out.nValue.vchNonceCommitment)
  ELSE <<>>

HasBit(flags, b) == (flags \div b) % 2 = 1

\* WriteFlags deriving the output-witness bit in the Bitcoin format too
WriteFlags_OutputWitnessInBitcoin(tx, nVersion) ==
  (IF SERIALIZE_TRANSACTION_NO_WITNESS \notin nVersion /\ ~CTxWitness_IsNull(tx.wit)
   THEN 1 ELSE 0)
  + (IF SERIALIZE_TRANSACTION_NO_WITNESS \notin nVersion
        /\ \E i \in 1..Len(tx.vout) : ~CTxOutWitnessSerializer_IsNull(tx.vout[i])
     THEN 2 ELSE 0)

\* WriteFlags deriving the flags whether or not witnesses are suppressed
WriteFlags_IgnoringNoWitness(tx, nVersion) ==
  (IF ~CTxWitness_IsNull(tx.wit) THEN 1 ELSE 0)
  + (IF SERIALIZE_BITCOIN_BLOCK_OR_TX \notin nVersion
        /\ \E i \in 1..Len(tx.vout) : ~CTxOutWitnessSerializer_IsNull(tx.vout[i])
     THEN 2 ELSE 0)

\* SerializeTransaction, the flags the write path derives (lines 508-521)
WriteFlags(tx, nVersion) ==
  LET fIsBitcoinTx == SERIALIZE_BITCOIN_BLOCK_OR_TX \in nVersion
      f1 == IF SERIALIZE_TRANSACTION_NO_WITNESS \notin nVersion
               /\ ~CTxWitness_IsNull(tx.wit)
            THEN 1 ELSE 0
      f2 == IF SERIALIZE_TRANSACTION_NO_WITNESS \notin nVersion
               /\ ~fIsBitcoinTx
               /\ \E i \in 1..Len(tx.vout) : ~CTxOutWitnessSerializer_IsNull(tx.vout[i])
            THEN 2 ELSE 0
  IN  f1 + f2

\* ResizeWit with one entry per output instead of one per input
ResizeWit_ByOutputs(tx, flags) ==
  IF HasBit(flags, 1) THEN Resize(tx.wit, Len(tx.vout)) ELSE tx.wit

\* SerializeTransaction, lines 530-531: the write path resizes the witness
\* of the object it serializes to one entry per input
ResizeWit(tx, flags) ==
  IF HasBit(flags, 1) THEN Resize(tx.wit, Len(tx.vin)) ELSE tx.wit

\* WriteFee emitting the fee field whatever the format
WriteFee_InEveryFormat(tx, nVersion) ==
  IF tx.nTxFee # Int64(TX_FEE_BITCOIN_TX_FLAG) THEN tx.nTxFee ELSE <<>>

\* SerializeTransaction, lines 458-459 with ser_action writing: the fee field
WriteFee(tx, nVersion) ==
  IF tx.nTxFee # Int64(TX_FEE_BITCOIN_TX_FLAG)
     /\ SERIALIZE_BITCOIN_BLOCK_OR_TX \notin nVersion
  THEN tx.nTxFee
  ELSE <<>>

\* SerializeTransaction with ser_action writing.  The result holds the bytes
\* emitted (out), the error that ended the write (err), the derived flags
\* byte and the transaction as the call leaves it (wit is resized to the
\* number of inputs when the input-witness bit is derived).
SerializeTransaction_Write(tx, nVersion) ==
  LET fIsBitcoinTx == SERIALIZE_BITCOIN_BLOCK_OR_TX \in nVersion
      head == tx.nVersion \o WriteFee(tx, nVersion)
      flags == WriteFlags(tx, nVersion)
      marker == IF flags # 0 THEN WriteVin(<<>>) \o <<flags>> ELSE <<>>
      vout == WriteVout(tx.vout, nVersion)
      wit == ResizeWit(tx, flags)
      witBytes == IF HasBit(flags, 1) THEN CTxWitness_Write(wit).out ELSE <<>>
      outWit == IF HasBit(flags, 2)
                THEN Concat([i \in 1..Len(tx.vout) |->
                               CTxOutWitnessSerializer_Write(tx.vout[i], nVersion)])
                ELSE <<>>
  IN  IF Len(tx.wit) > Len(tx.vin)
      THEN [err |-> ErrAssertWitSize, out |-> head, flags |-> 0, tx |-> tx]
      ELSE IF vout.err # NoError
      THEN [err |-> vout.err,
            out |-> head \o marker \o WriteVin(tx.vin) \o vout.out,
            flags |-> flags, tx |-> tx]
      ELSE [err |-> NoError,
            out |-> head \o marker \o WriteVin(tx.vin) \o vout.out
                    \o witBytes \o outWit \o tx.nLockTime,
            flags |-> flags,
            tx |-> [tx EXCEPT !.wit = wit]]

\* ------------------------------------------------------------- read side
\* A reader is [rest, err, val]: the bytes not yet consumed, the error that
\* ended the read (NoError while it goes on) and the value last read.  Once
\* err is set every later read leaves the reader as it is (the exception
\* propagates).

Reader(s) == [rest |-> s, err |-> NoError, val |-> <<>>]

Ok(r) == r.err = NoError

Throw(r, e) == [rest |-> r.rest, err |-> e, val |-> <<>>]

\* CDataStream::read of n bytes
ReadBytes(r, n) ==
  IF ~Ok(r) THEN Throw(r, r.err)
  ELSE IF Len(r.rest) < n THEN Throw(r, ErrEndOfData)
  ELSE [rest |-> SubSeq(r.rest, n + 1, Len(r.rest)), err |-> NoError,
        val |-> SubSeq(r.rest, 1, n)]

\* ReadCompactSize: val is the size.  The 4-byte form is canonical from
\* 0x10000 and the 8-byte form from 0x100000000; a size above MAX_SIZE
\* (0x02000000) is refused, which every 8-byte form is.
ReadCompactSize(r) ==
  LET Wide(w, chSize) ==
        IF ~Ok(w) THEN w
        ELSE IF chSize = CompactSize16
        THEN IF w.val[1] + 256 * w.val[2] < CompactSize16
             THEN Throw(w, ErrNonCanonical)
             ELSE [w EXCEPT !.val = w.val[1] + 256 * w.val[2]]
        ELSE IF chSize = CompactSize32
        THEN IF w.val[3] = 0 /\ w.val[4] = 0 THEN Throw(w, ErrNonCanonical)
             ELSE IF w.val[4] > 2
                     \/ (w.val[4] = 2 /\ (w.val[1] + w.val[2] + w.val[3]) > 0)
             THEN Throw(w, ErrTooLarge)
             ELSE [w EXCEPT !.val = w.val[1] + 256 * w.val[2]
                                    + 65536 * w.val[3] + 16777216 * w.val[4]]
        ELSE IF AllZero(SubSeq(w.val, 5, 8)) THEN Throw(w, ErrNonCanonical)
             ELSE Throw(w, ErrTooLarge)
      First(b) ==
        IF ~Ok(b) THEN b
        ELSE IF b.val[1] < CompactSize16 THEN [b EXCEPT !.val = b.val[1]]
        ELSE Wide(ReadBytes(b, IF b.val[1] = CompactSize16 THEN 2
                               ELSE IF b.val[1] = CompactSize32 THEN 4 ELSE 8),
                  b.val[1])
  IN  First(ReadBytes(r, 1))

\* Unserialize of a vector of unsigned char
ReadByteVector(r) ==
  LET Sized(n) == IF Ok(n) THEN ReadBytes(n, n.val) ELSE n
  IN  Sized(ReadCompactSize(r))

\* CTxIn::SerializationOp with COutPoint::SerializationOp, reading: hash, n,
\* scriptSig, nSequence
CTxIn_Read(r) ==
  LET Built(h, n, s, q) ==
        IF Ok(q)
        THEN [q EXCEPT !.val = [prevout |-> [hash |-> h.val, n |-> n.val],
                                scriptSig |-> s.val, nSequence |-> q.val]]
        ELSE q
      WithScript(h, n, s) == Built(h, n, s, ReadBytes(s, SizeInt32))
      WithN(h, n) == WithScript(h, n, ReadByteVector(n))
      WithHash(h) == WithN(h, ReadBytes(h, SizeInt32))
  IN  WithHash(ReadBytes(r, SizeUint256))

\* CTxOutValue::SerializationOp, reading into the value v the target holds
CTxOutValue_Read(r, v, nVersion) ==
  LET Amount(a) ==
        IF Ok(a) THEN [a EXCEPT !.val = SetToBitcoinAmount(v, a.val)] ELSE a
      Payload(p, tag) ==
        IF ~Ok(p) THEN p
        ELSE [p EXCEPT !.val = [v EXCEPT !.vchCommitment = <<tag>> \o p.val]]
      Size(tag) ==
        IF tag \in {0, 1} THEN nExplicitSize
        ELSE IF tag \in {2, 3} THEN Len(v.vchCommitment)
        ELSE IF tag \in {8, 9} THEN nCommittedSize
        ELSE 1
      Tagged(t) ==
        IF ~Ok(t) THEN t
        ELSE Payload(ReadBytes(t, Size(t.val[1]) - 1), t.val[1])
  IN  IF SERIALIZE_BITCOIN_BLOCK_OR_TX \in nVersion \/ IsInBitcoinTransaction(v)
      THEN Amount(ReadBytes(r, SizeInt64))
      ELSE Tagged(ReadBytes(r, 1))

\* CTxOut::SerializationOp, reading into a default-constructed CTxOut
CTxOut_Read(r, nVersion) ==
  LET Built(v, s) ==
        IF Ok(s) THEN [s EXCEPT !.val = [nValue |-> v.val, scriptPubKey |-> s.val]]
        ELSE s
      WithValue(v) == Built(v, ReadByteVector(v))
  IN  WithValue(CTxOutValue_Read(r, CTxOut_SetNull.nValue, nVersion))

RECURSIVE ReadTxIns(_, _, _)
\* the element loop of Unserialize of std::vector<CTxIn>; on an error val
\* holds the elements read before it
ReadTxIns(r, n, acc) ==
  LET Elem(e) ==
        IF Ok(e) THEN ReadTxIns(e, n - 1, Append(acc, e.val))
        ELSE [e EXCEPT !.val = acc]
  IN  IF n = 0 THEN [r EXCEPT !.val = acc] ELSE Elem(CTxIn_Read(r))

\* Unserialize of std::vector<CTxIn>
ReadVin(r) ==
  LET Sized(n) == IF Ok(n) THEN ReadTxIns(n, n.val, <<>>) ELSE n
  IN  Sized(ReadCompactSize(r))

RECURSIVE ReadTxOuts(_, _, _, _)
\* the element loop of Unserialize of std::vector<CTxOut>
ReadTxOuts(r, n, acc, nVersion) ==
  LET Elem(e) ==
        IF Ok(e) THEN ReadTxOuts(e, n - 1, Append(acc, e.val), nVersion)
        ELSE [e EXCEPT !.val = acc]
  IN  IF n = 0 THEN [r EXCEPT !.val = acc] ELSE Elem(CTxOut_Read(r, nVersion))

\* Unserialize of std::vector<CTxOut>
ReadVout(r, nVersion) ==
  LET Sized(n) == IF Ok(n) THEN ReadTxOuts(n, n.val, <<>>, nVersion) ELSE n
  IN  Sized(ReadCompactSize(r))

RECURSIVE ReadStackItems(_, _, _)
\* the element loop of Unserialize of the stack's vector of byte vectors
ReadStackItems(r, n, acc) ==
  LET Elem(e) ==
        IF Ok(e) THEN ReadStackItems(e, n - 1, Append(acc, e.val))
        ELSE [e EXCEPT !.val = acc]
  IN  IF n = 0 THEN [r EXCEPT !.val = acc] ELSE Elem(ReadByteVector(r))

\* CTxInWitness::SerializationOp, reading: scriptWitness.stack
CTxInWitness_Read(r) ==
  LET Sized(n) == IF Ok(n) THEN ReadStackItems(n, n.val, <<>>) ELSE n
  IN  Sized(ReadCompactSize(r))

RECURSIVE ReadInWits(_, _, _)
\* the loop of CTxWitness::SerializationOp over vtxinwit, entry n onwards
ReadInWits(r, vtxinwit, n) ==
  LET Elem(e) ==
        IF Ok(e) THEN ReadInWits(e, [vtxinwit EXCEPT ![n] = e.val], n + 1)
        ELSE [e EXCEPT !.val = [vtxinwit EXCEPT ![n] = e.val]]
  IN  IF n > Len(vtxinwit) THEN [r EXCEPT !.val = vtxinwit]
      ELSE Elem(CTxInWitness_Read(r))

\* CTxWitness_Read without the IsNull check
CTxWitness_Read_Unchecked(r, vtxinwit) == ReadInWits(r, vtxinwit, 1)

\* CTxWitness::SerializationOp, reading
CTxWitness_Read(r, vtxinwit) ==
  LET Checked(w) ==
        IF Ok(w) /\ CTxWitness_IsNull(w.val)
        THEN [w EXCEPT !.err = ErrSuperfluousWitness]
        ELSE w
  IN  Checked(ReadInWits(r, vtxinwit, 1))

\* CTxOutWitnessSerializer::SerializationOp, reading into output out
CTxOutWitnessSerializer_Read(r, out, nVersion) ==
  LET Nonce(p, c) ==
        IF ~Ok(c)
        THEN [c EXCEPT !.val = [out EXCEPT !.nValue.vchRangeproof = p.val]]
        ELSE [c EXCEPT !.val = [out EXCEPT !.nValue.vchRangeproof = p.val,
                                           !.nValue.vchNonceCommitment = c.val]]
      Proof(p) ==
        IF ~Ok(p) THEN [p EXCEPT !.val = out] ELSE Nonce(p, ReadByteVector(p))
  IN  IF SERIALIZE_BITCOIN_BLOCK_OR_TX \in nVersion THEN [r EXCEPT !.val = out]
      ELSE Proof(ReadByteVector(r))

RECURSIVE ReadOutWits(_, _, _, _)
\* the loop of lines 490-496 over tx.vout, output i onwards
ReadOutWits(r, vout, i, nVersion) ==
  LET Elem(e) ==
        IF Ok(e) THEN ReadOutWits(e, [vout EXCEPT ![i] = e.val], i + 1, nVersion)
        ELSE [e EXCEPT !.val = [vout EXCEPT ![i] = e.val]]
  IN  IF i > Len(vout) THEN [r EXCEPT !.val = vout]
      ELSE Elem(CTxOutWitnessSerializer_Read(r, vout[i], nVersion))

\* CheckHadOutputWitness with the check left out
CheckHadOutputWitness_Skipped(r) == r

\* SerializeTransaction, lines 497-499: r holds the outputs as read with
\* their witnesses; fHadOutputWitness is false when every one is null
CheckHadOutputWitness(r) ==
  IF Ok(r) /\ \A i \in 1..Len(r.val) : CTxOutWitnessSerializer_IsNull(r.val[i])
  THEN [r EXCEPT !.err = ErrSuperfluousOutputWitness]
  ELSE r

\* CheckUnknownFlags with the check left out
CheckUnknownFlags_Skipped(r, flags) == r

\* SerializeTransaction, lines 501-504: a flags bit no step has cleared
CheckUnknownFlags(r, flags) ==
  IF Ok(r) /\ flags # 0 THEN [r EXCEPT !.err = ErrUnknownOptionalData] ELSE r

\* SerializeTransaction, lines 458-461 with ser_action reading: the fee is
\* read from the stream, or set to TX_FEE_BITCOIN_TX_FLAG without a read
ReadFee(r, nVersion) ==
  IF SERIALIZE_BITCOIN_BLOCK_OR_TX \notin nVersion
  THEN ReadBytes(r, SizeInt64)
  ELSE [r EXCEPT !.val = Int64(TX_FEE_BITCOIN_TX_FLAG)]

\* ReadsFlags taking a flags byte after a non-empty input list as well
ReadsFlags_AfterAnyVin(vin, nVersion) ==
  SERIALIZE_TRANSACTION_NO_WITNESS \notin nVersion

\* SerializeTransaction, line 470: the list just read is a dummy or an empty
\* vin, and a flags byte is read next
ReadsFlags(vin, nVersion) ==
  Len(vin) = 0 /\ SERIALIZE_TRANSACTION_NO_WITNESS \notin nVersion

\* SerializeTransaction with ser_action reading the stream s into the
\* object tx.  The result holds the object as the call leaves it (on an
\* error: with the fields assigned before the throw), the error, the bytes
\* left in the stream, the flags byte as read from the stream (0 when none
\* was read) and the local flags when the call ends.  The steps are listed
\* last to first: each takes the object t as assigned so far and the reader
\* r after the read it follows.
SerializeTransaction_Read(tx, s, nVersion) ==
  LET fAllowWitness == SERIALIZE_TRANSACTION_NO_WITNESS \notin nVersion
      fIsBitcoinTx == SERIALIZE_BITCOIN_BLOCK_OR_TX \in nVersion
      Done(t, r, flags, left) ==
        [tx |-> t, err |-> r.err, rest |-> r.rest, flags |-> flags,
         flagsLeft |-> left]
      \* line 541
      LockTimeRead(t, r, flags, left) ==
        Done(IF Ok(r) THEN [t EXCEPT !.nLockTime = r.val] ELSE t, r, flags, left)
      \* lines 501-504
      Unknown(t, r, flags, left) ==
        LockTimeRead(t, ReadBytes(CheckUnknownFlags(r, left), SizeInt32),
                     flags, left)
      \* lines 486-500
      OutWitRead(t, r, flags, left) ==
        Unknown([t EXCEPT !.vout = r.val], CheckHadOutputWitness(r), flags, left)
      OutWit(t, r, flags, left) ==
        IF Ok(r) /\ HasBit(left, 2) /\ fAllowWitness /\ ~fIsBitcoinTx
        THEN OutWitRead(t, ReadOutWits(r, t.vout, 1, nVersion), flags, left - 2)
        ELSE Unknown(t, r, flags, left)
      \* lines 480-485
      WitRead(t, r, flags, left) == OutWit([t EXCEPT !.wit = r.val], r, flags, left)
      Wit(t, r, flags) ==
        IF Ok(r) /\ HasBit(flags, 1) /\ fAllowWitness
        THEN WitRead(t, CTxWitness_Read(r, Resize(t.wit, Len(t.vin))),
                     flags, flags - 1)
        ELSE OutWit(t, r, flags, flags)
      \* lines 474 and 478
      VoutRead(t, r, flags) == Wit([t EXCEPT !.vout = r.val], r, flags)
      \* line 473
      VinRead(t, r, flags) ==
        IF Ok(r)
        THEN VoutRead([t EXCEPT !.vin = r.val], ReadVout(r, nVersion), flags)
        ELSE Done([t EXCEPT !.vin = r.val], r, flags, flags)
      \* lines 471-472
      FlagsRead(t, r) ==
        IF ~Ok(r) THEN Done(t, r, 0, 0)
        ELSE IF r.val[1] # 0 THEN VinRead(t, ReadVin(r), r.val[1])
        ELSE Wit(t, r, 0)
      \* lines 468-469 and 476-478
      DummyRead(t, r) ==
        IF ~Ok(r) THEN Done([t EXCEPT !.vin = r.val], r, 0, 0)
        ELSE IF ReadsFlags(r.val, nVersion)
        THEN FlagsRead([t EXCEPT !.vin = r.val], ReadBytes(r, 1))
        ELSE VoutRead([t EXCEPT !.vin = r.val], ReadVout(r, nVersion), 0)
      \* lines 458-466
      FeeRead(t, r) ==
        IF ~Ok(r) THEN Done(t, r, 0, 0)
        ELSE DummyRead([t EXCEPT !.nTxFee = r.val, !.vin = <<>>, !.vout = <<>>,
                                 !.wit = <<>>],
                       ReadVin(r))
      \* line 457
      VersionRead(r) ==
        IF ~Ok(r) THEN Done(tx, r, 0, 0)
        ELSE FeeRead([tx EXCEPT !.nVersion = r.val], ReadFee(r, nVersion))
  IN  VersionRead(ReadBytes(Reader(s), SizeInt32))

\* --------------------------------------------------------- the hashes

\* CMutableTransaction::GetHash / CTransaction::UpdateHash: the hash of the
\* serialization without witness.  The hash function is kept symbolic: a
\* hash is identified with its pre-image.
ComputeHash(tx) ==
  SerializeTransaction_Write(tx, {SERIALIZE_TRANSACTION_NO_WITNESS}).out

\* CTransaction::GetWitnessHash: the hash of the full serialization
GetWitnessHash(tx) == SerializeTransaction_Write(tx, {}).out

\* ------------------------------------------------------------ the inputs

MaxIn == 2
MaxOut == 2
MaxFlags == 7
MaxHops == 1

\* the nVersion arguments: every combination of the two flags
Modes == SUBSET {SERIALIZE_TRANSACTION_NO_WITNESS, SERIALIZE_BITCOIN_BLOCK_OR_TX}

\* CTxIn values a caller builds: a spend of output 0 of transaction 1 with a
\* one-byte scriptSig, and a coinbase-style input (null prevout).
SEQUENCE_FINAL == LE(-1, SizeInt32)
COutPoint_Null == [hash |-> Uint256(0), n |-> LE(-1, SizeInt32)]
TxInSpend ==
  [prevout |-> [hash |-> Uint256(1), n |-> Int32(0)], scriptSig |-> <<81>>,
   nSequence |-> Int32(0)]
TxInCoinbase ==
  [prevout |-> COutPoint_Null, scriptSig |-> <<>>, nSequence |-> SEQUENCE_FINAL]

\* the input lists: the first k of spend, coinbase-style, spend, ...
VinOfLen(k) == [i \in 1..k |-> IF i % 2 = 1 THEN TxInSpend ELSE TxInCoinbase]

\* witness stacks: none, or two items
Stacks == {<<>>, <<<<48>>, <<2, 3>>>>}

\* CTxOut values: an explicit amount, the null output, a commitment with its
\* range proof and nonce commitment, an explicit amount that carries a nonce
\* commitment.
TxOutExplicit ==
  [nValue |-> SetToAmount(CTxOutValue_SetNull, Int64(5)), scriptPubKey |-> <<81>>]
TxOutCommitted ==
  [nValue |-> [vchCommitment |-> <<8>> \o LE(3, nCommittedSize - 1),
               vchRangeproof |-> <<7>>, vchNonceCommitment |-> <<2, 9>>],
   scriptPubKey |-> <<82>>]
TxOutNonce ==
  [nValue |-> [SetToAmount(CTxOutValue_SetNull, Int64(6))
                 EXCEPT !.vchNonceCommitment = <<3>>],
   scriptPubKey |-> <<>>]
TxOuts == {TxOutExplicit, CTxOut_SetNull, TxOutCommitted, TxOutNonce}

SeqsUpTo(S, n) == UNION {[1..k -> S] : k \in 0..n}

\* the transactions a caller builds: wit has at most one entry per input
Txs ==
  {[nVersion |-> Int32(1), nTxFee |-> fee, vin |-> VinOfLen(k), vout |-> vout,
    wit |-> wit, nLockTime |-> Int32(500000)] :
     fee \in {Int64(7), Int64(TX_FEE_BITCOIN_TX_FLAG)},
     k \in 0..MaxIn,
     vout \in SeqsUpTo(TxOuts, MaxOut),
     wit \in SeqsUpTo(Stacks, MaxIn)}

\* CMutableTransaction::CMutableTransaction()
CMutableTransaction_New ==
  [nVersion |-> Int32(1), nTxFee |-> Int64(0), vin |-> <<>>, vout |-> <<>>,
   wit |-> <<>>, nLockTime |-> Int32(0)]

\* CTransaction::CTransaction(const CMutableTransaction&): the fields copied
\* and the hash computed
CTransaction_From(t) == [t |-> t, hash |-> ComputeHash(t)]

\* A stream a peer sends in the extended layout with flags byte f, whatever
\* the content: the fee field in native mode, the marker, the flags byte,
\* the lists, one witness per input when bit 0 of f is set, one output
\* witness record per output when bit 1 is set.  With f = -1 the peer sends
\* the basic layout, lists only.
PeerStream(t, f, mode) ==
  t.nVersion
  \o (IF SERIALIZE_BITCOIN_BLOCK_OR_TX \in mode THEN <<>> ELSE t.nTxFee)
  \o (IF f < 0 THEN <<>> ELSE <<0, f>>)
  \o WriteVin(t.vin)
  \o WriteVout(t.vout, mode).out
  \o (IF f >= 0 /\ HasBit(f, 1)
      THEN Concat([n \in 1..Len(t.vin) |->
                     CTxInWitness_Write(Resize(t.wit, Len(t.vin))[n])])
      ELSE <<>>)
  \o (IF f >= 0 /\ HasBit(f, 2)
      THEN Concat([i \in 1..Len(t.vout) |->
                     WriteBytes(t.vout[i].nValue.vchRangeproof)
                     \o WriteBytes(t.vout[i].nValue.vchNonceCommitment)])
      ELSE <<>>)
  \o t.nLockTime

\* ----------------------------------------------------- the state machine

VARIABLES
  tx,        \* the transaction the sender holds
  nVersion,  \* the nVersion argument of the calls: the set of its flags
  stream,    \* the bytes between sender and receiver
  wr,        \* how the stream was made: [by, err, flags]
  rx,        \* the transaction object the receiver reads into
  rd,        \* the outcome of the read: [err, flags, flagsLeft, rest]
  pc,        \* "built", "wire", "failed", "read", "both", "frozen", "rewit"
  hops,      \* the nVersion of each earlier hop of a relayed transaction
  alt,       \* a second stream a peer sends, its content that of rx
  rx2,       \* the object the second stream is read into
  rd2,       \* the outcome of that read
  ctx,       \* a CTransaction: [t, hash], the fields and the cached id
  enc,       \* the later encodings of tx: a set of [nVersion, err, out]
  cv,        \* a CTxOutValue read from and written to a stream of its own:
             \* [held, s, pc, rd, wr]
  pts,       \* two COutPoint objects a caller holds: [a, b]
  cmp,       \* what the last comparison or query returned
  ctx2,      \* a second CTransaction: [t, hash]
  wtx,       \* a CWalletTx: pwallet, its cached-balance flags, the last call
  chain      \* globalChainParams (empty, or one CChainParams), the base
             \* parameters' chain, the last call (op, network, result, got)
             \* and the last SelectParams that completed (sel)

vars ==
  <<tx, nVersion, stream, wr, rx, rd, pc, hops, alt, rx2, rd2, ctx, enc, cv,
    pts, cmp, ctx2, wtx, chain>>

NoWrite == [by |-> "none", err |-> NoError, flags |-> 0]
NoRead == [err |-> NoError, flags |-> 0, flagsLeft |-> 0, rest |-> <<>>]
NoValue ==
  [held |-> CTxOutValue_SetNull, s |-> <<>>, pc |-> "none", rd |-> Reader(<<>>),
   wr |-> [err |-> NoError, out |-> <<>>]]

\* COutPoint(): both outpoints null
NoPoints == [a |-> COutPoint_Null, b |-> COutPoint_Null]

NoCompare == [op |-> "none"]

\* CWalletTx::Init(NULL), lines 337-366: pwallet and the cached-balance flags
CachedFlags ==
  {"fDebitCached", "fCreditCached", "fImmatureCreditCached",
   "fAvailableCreditCached", "fWatchDebitCached", "fWatchCreditCached",
   "fImmatureWatchCreditCached", "fAvailableWatchCreditCached", "fChangeCached"}

CWalletTx_Init(pwalletIn) ==
  [pwallet |-> pwalletIn, cached |-> [f \in CachedFlags |-> FALSE],
   last |-> "Init"]

\* static boost::scoped_ptr<CChainParams> globalChainParams: empty
NoChain ==
  [globalChainParams |-> <<>>, base |-> <<>>, op |-> "none", network |-> "",
   result |-> "none", got |-> <<>>, sel |-> <<>>]

\* the objects no call has touched yet
Untouched ==
  /\ pts = NoPoints
  /\ cmp = NoCompare
  /\ ctx2 = [t |-> CMutableTransaction_New, hash |-> <<>>]
  /\ wtx = CWalletTx_Init("NULL")
  /\ chain = NoChain

Init ==
  /\ tx \in {t \in Txs : Len(t.wit) <= Len(t.vin)}
  /\ nVersion \in Modes
  /\ stream = <<>>
  /\ wr = NoWrite
  /\ rx = CMutableTransaction_New
  /\ rd = NoRead
  /\ pc = "built"
  /\ hops = <<>>
  /\ alt = <<>>
  /\ rx2 = CMutableTransaction_New
  /\ rd2 = NoRead
  /\ ctx = [t |-> CMutableTransaction_New, hash |-> <<>>]
  /\ enc = {}
  /\ cv = NoValue
  /\ Untouched

ReadOutcome(r) ==
  [err |-> r.err, flags |-> r.flags, flagsLeft |-> r.flagsLeft, rest |-> r.rest]

\* the sender serializes tx under nVersion
Serialize ==
  /\ pc = "built"
  /\ LET w == SerializeTransaction_Write(tx, nVersion)
     IN  /\ tx' = w.tx
         /\ stream' = w.out
         /\ wr' = [by |-> "Serialize", err |-> w.err, flags |-> w.flags]
         /\ pc' = IF w.err = NoError THEN "wire" ELSE "failed"
  /\ UNCHANGED <<nVersion, rx, rd, hops, alt, rx2, rd2, ctx, enc, cv,
                 pts, cmp, ctx2, wtx, chain>>

\* a peer sends a stream of its own making, flags byte f
Craft(f) ==
  /\ pc = "built"
  /\ WriteVout(tx.vout, nVersion).err = NoError
  /\ stream' = PeerStream(tx, f, nVersion)
  /\ wr' = [by |-> "Craft", err |-> NoError, flags |-> f]
  /\ pc' = "wire"
  /\ UNCHANGED <<tx, nVersion, rx, rd, hops, alt, rx2, rd2, ctx, enc, cv,
                 pts, cmp, ctx2, wtx, chain>>

\* the receiver unserializes the stream under nVersion
Unserialize ==
  /\ pc = "wire"
  /\ LET r == SerializeTransaction_Read(rx, stream, nVersion)
     IN  /\ rx' = r.tx
         /\ rd' = ReadOutcome(r)
  /\ pc' = "read"
  /\ UNCHANGED <<tx, nVersion, stream, wr, hops, alt, rx2, rd2, ctx, enc, cv,
                 pts, cmp, ctx2, wtx, chain>>

\* the receiver of a transaction sends it on, under nVersion m
Relay(m) ==
  /\ pc = "read"
  /\ rd.err = NoError
  /\ Len(hops) < MaxHops
  /\ hops' = Append(hops, nVersion)
  /\ tx' = rx
  /\ nVersion' = m
  /\ rx' = CMutableTransaction_New
  /\ pc' = "built"
  /\ UNCHANGED <<stream, wr, rd, alt, rx2, rd2, ctx, enc, cv,
                 pts, cmp, ctx2, wtx, chain>>

\* a peer sends another stream with the content the receiver just read, in
\* the layout of flags byte f, and a second receiver unserializes it
UnserializeAlt(f) ==
  /\ pc = "read"
  /\ rd.err = NoError /\ rd.rest = <<>>
  /\ WriteVout(rx.vout, nVersion).err = NoError
  /\ alt' = PeerStream(rx, f, nVersion)
  /\ LET r == SerializeTransaction_Read(rx2, alt', nVersion)
     IN  /\ rx2' = r.tx
         /\ rd2' = ReadOutcome(r)
  /\ pc' = "both"
  /\ UNCHANGED <<tx, nVersion, stream, wr, rx, rd, hops, ctx, enc, cv,
                 pts, cmp, ctx2, wtx, chain>>

\* CTransaction(const CMutableTransaction&)
Construct ==
  /\ pc = "built"
  /\ SerializeTransaction_Write(tx, {}).err = NoError
  /\ ctx' = CTransaction_From(tx)
  /\ pc' = "frozen"
  /\ UNCHANGED <<tx, nVersion, stream, wr, rx, rd, hops, alt, rx2, rd2, enc, cv,
                 pts, cmp, ctx2, wtx, chain>>

\* the holder of a CTransaction assigns its wit member, which is not const
ChangeWit(w) ==
  /\ pc = "frozen"
  /\ Len(w) <= Len(ctx.t.vin)
  /\ ctx' = [ctx EXCEPT !.t.wit = w]
  /\ pc' = "rewit"
  /\ UNCHANGED <<tx, nVersion, stream, wr, rx, rd, hops, alt, rx2, rd2, enc, cv,
                 pts, cmp, ctx2, wtx, chain>>

PeerFlags == 0..MaxFlags

Next == Serialize \/ (\E f \in PeerFlags : Craft(f)) \/ Unserialize

Spec == Init /\ [][Next]_vars

\* a relayed transaction: unserialized, then serialized again by its
\* receiver under another nVersion
NextRelay == Serialize \/ Unserialize \/ (\E m \in Modes : Relay(m))

SpecRelay == Init /\ [][NextRelay]_vars

\* two streams under the same nVersion
NextAlt ==
  \/ Serialize
  \/ (\E f \in PeerFlags : Craft(f))
  \/ Unserialize
  \/ (\E f \in {-1} \cup PeerFlags : UnserializeAlt(f))

SpecAlt == Init /\ [][NextAlt]_vars

\* a CTransaction whose wit changes
InitHash == Init /\ nVersion = {}

NextHash == Construct \/ (\E w \in SeqsUpTo(Stacks, MaxIn) : ChangeWit(w))

SpecHash == InitHash /\ [][NextHash]_vars

\* the holder of tx serializes it once more, under nVersion m
SerializeAgain(m) ==
  /\ pc \in {"wire", "failed", "again"}
  /\ wr.by = "Serialize"
  /\ LET w == SerializeTransaction_Write(tx, m)
     IN  /\ tx' = w.tx
         /\ enc' = enc \cup {[nVersion |-> m, err |-> w.err, out |-> w.out]}
  /\ pc' = "again"
  /\ UNCHANGED <<nVersion, stream, wr, rx, rd, hops, alt, rx2, rd2, ctx, cv,
                 pts, cmp, ctx2, wtx, chain>>

\* one transaction serialized again and again, under any nVersion
NextRepeat == Serialize \/ (\E m \in Modes : SerializeAgain(m))

SpecRepeat == Init /\ [][NextRepeat]_vars

\* CTransaction::operator=: the fields and the cached id of the other object
CTransaction_Assign(c, other) == other

\* CTransaction::SerializationOp with ser_action reading (lines 599-605):
\* SerializeTransaction into the object itself, then UpdateHash, which an
\* exception of SerializeTransaction skips.  The result is the read's, with
\* the CTransaction as the call leaves it in place of tx.
CTransaction_Read(c, s, mode) ==
  LET Hashed(r) ==
        [r EXCEPT !.tx = [t |-> r.tx,
                          hash |-> IF r.err = NoError THEN ComputeHash(r.tx)
                                   ELSE c.hash]]
  IN  Hashed(SerializeTransaction_Read(c.t, s, mode))

\* the transactions a peer sends to the holder of a CTransaction: fee 7, one
\* input with its witness entry, one explicit output
Donors ==
  {t \in Txs : /\ t.nTxFee = Int64(7) /\ Len(t.vin) = 1 /\ Len(t.wit) = 1
               /\ t.vout = <<TxOutExplicit>>}

\* the streams that arrive: the encodings of the donors under nVersion mode,
\* whole or cut short
Prefixes(s) == {SubSeq(s, 1, k) : k \in 0..Len(s)}

ArrivingStreams(mode) ==
  UNION {Prefixes(SerializeTransaction_Write(d, mode).out) : d \in Donors}

\* the holder assigns another CTransaction to its own
Assign(u) ==
  /\ pc = "frozen"
  /\ ctx' = CTransaction_Assign(ctx, CTransaction_From(u))
  /\ pc' = "assigned"
  /\ UNCHANGED <<tx, nVersion, stream, wr, rx, rd, hops, alt, rx2, rd2, enc, cv,
                 pts, cmp, ctx2, wtx, chain>>

\* the holder unserializes the stream s into its CTransaction
UnserializeCtx(s) ==
  /\ pc \in {"frozen", "assigned"}
  /\ stream' = s
  /\ LET r == CTransaction_Read(ctx, s, nVersion)
     IN  /\ ctx' = r.tx
         /\ rd' = ReadOutcome(r)
  /\ pc' = "ctxread"
  /\ UNCHANGED <<tx, nVersion, wr, rx, hops, alt, rx2, rd2, enc, cv,
                 pts, cmp, ctx2, wtx, chain>>

\* the life of a CTransaction: constructed, assigned, unserialized into
NextCtx ==
  \/ Construct
  \/ (\E u \in Donors : Assign(u))
  \/ (\E s \in ArrivingStreams(nVersion) : UnserializeCtx(s))

\* the CTransaction is built from a transaction with fee 7 and at most one
\* output
InitCtx == Init /\ tx.nTxFee = Int64(7) /\ Len(tx.vout) <= 1

SpecCtx == InitCtx /\ [][NextCtx]_vars

\* a CTxOutValue of its own: the values a target holds before a read (a
\* default-constructed one, an explicit amount, a Bitcoin amount, a
\* commitment) and the streams it is read from: every tag byte, then
\* FillerLen bytes that are all different
FillerLen == 40

HeldValues ==
  {CTxOutValue_SetNull,
   SetToAmount(CTxOutValue_SetNull, Int64(5)),
   SetToBitcoinAmount(CTxOutValue_SetNull, Int64(5)),
   TxOutCommitted.nValue}

Filler == [i \in 1..FillerLen |-> 100 + i]

InitValue ==
  /\ tx = CMutableTransaction_New
  /\ nVersion \in Modes
  /\ stream = <<>>
  /\ wr = NoWrite
  /\ rx = CMutableTransaction_New
  /\ rd = NoRead
  /\ pc = "built"
  /\ hops = <<>>
  /\ alt = <<>>
  /\ rx2 = CMutableTransaction_New
  /\ rd2 = NoRead
  /\ ctx = [t |-> CMutableTransaction_New, hash |-> <<>>]
  /\ enc = {}
  /\ cv \in {[NoValue EXCEPT !.held = h, !.s = <<tag>> \o Filler, !.pc = "held"] :
               h \in HeldValues, tag \in 0..255}
  /\ Untouched

\* CTxOutValue::SerializationOp reading the stream cv.s into the held value
ReadValue ==
  /\ cv.pc = "held"
  /\ cv' = [cv EXCEPT !.rd = CTxOutValue_Read(Reader(cv.s), cv.held, nVersion),
                      !.pc = "read"]
  /\ UNCHANGED <<tx, nVersion, stream, wr, rx, rd, pc, hops, alt, rx2, rd2, ctx, enc,
                 pts, cmp, ctx2, wtx, chain>>

\* CTxOutValue::SerializationOp writing the value just read
WriteValue ==
  /\ cv.pc = "read"
  /\ cv.rd.err = NoError
  /\ cv' = [cv EXCEPT !.wr = CTxOutValue_Write(cv.rd.val, nVersion),
                      !.pc = "written"]
  /\ UNCHANGED <<tx, nVersion, stream, wr, rx, rd, pc, hops, alt, rx2, rd2, ctx, enc,
                 pts, cmp, ctx2, wtx, chain>>

NextValue == ReadValue \/ WriteValue

SpecValue == InitValue /\ [][NextValue]_vars

\* CTxOutValue::SerializationOp writing the value of output i of tx to a
\* stream of its own
WriteValueOf(i) ==
  /\ pc = "built"
  /\ cv.pc = "none"
  /\ i \in 1..Len(tx.vout)
  /\ LET Written(w) ==
           [cv EXCEPT !.held = tx.vout[i].nValue, !.wr = w, !.s = w.out,
                      !.pc = "wrote"]
     IN  cv' = Written(CTxOutValue_Write(tx.vout[i].nValue, nVersion))
  /\ UNCHANGED <<tx, nVersion, stream, wr, rx, rd, pc, hops, alt, rx2, rd2, ctx, enc,
                 pts, cmp, ctx2, wtx, chain>>

\* CTxOutValue::SerializationOp reading that stream into a
\* default-constructed value
ReadBack ==
  /\ cv.pc = "wrote"
  /\ cv.wr.err = NoError
  /\ cv' = [cv EXCEPT !.rd = CTxOutValue_Read(Reader(cv.s), CTxOutValue_SetNull,
                                              nVersion),
                      !.pc = "readback"]
  /\ UNCHANGED <<tx, nVersion, stream, wr, rx, rd, pc, hops, alt, rx2, rd2, ctx, enc,
                 pts, cmp, ctx2, wtx, chain>>

\* a transaction and its output values, each serialized
NextMisuse ==
  \/ Serialize
  \/ (\E i \in 1..MaxOut : WriteValueOf(i))
  \/ ReadBack

SpecMisuse == Init /\ [][NextMisuse]_vars

\* the stream arrives cut short: the receiver gets its first k bytes only
Truncate(k) ==
  /\ pc = "wire"
  /\ wr.by = "Serialize"
  /\ k < Len(stream)
  /\ stream' = SubSeq(stream, 1, k)
  /\ wr' = [wr EXCEPT !.by = "Truncate"]
  /\ UNCHANGED <<tx, nVersion, rx, rd, pc, hops, alt, rx2, rd2, ctx, enc, cv,
                 pts, cmp, ctx2, wtx, chain>>

NextTrunc ==
  \/ Serialize
  \/ (\E k \in 0..(Len(stream) - 1) : Truncate(k))
  \/ Unserialize

InitTrunc == Init /\ Len(tx.vout) <= 1

SpecTrunc == InitTrunc /\ [][NextTrunc]_vars

\* ---------------------------------------------------------- COutPoint
RECURSIVE uint256_Compare(_, _)
\* base_blob::Compare: memcmp of the two 32-byte images
uint256_Compare(x, y) ==
  IF x = <<>> \/ y = <<>> THEN 0
  ELSE IF Head(x) < Head(y) THEN -1
  ELSE IF Head(x) > Head(y) THEN 1
  ELSE uint256_Compare(Tail(x), Tail(y))

\* base_blob::IsNull
uint256_IsNull(x) == AllZero(x)

RECURSIVE Uint32_Less(_, _)
\* a < b on uint32_t, on the little-endian images: the higher bytes decide
Uint32_Less(a, b) ==
  IF a = <<>> THEN FALSE
  ELSE Uint32_Less(Tail(a), Tail(b)) \/ (Tail(a) = Tail(b) /\ Head(a) < Head(b))

\* COutPoint::IsNull
COutPoint_IsNull(p) == uint256_IsNull(p.hash) /\ p.n = LE(-1, SizeInt32)

\* operator< with the index compared before the hash
COutPoint_Less_IndexFirst(a, b) ==
  \/ Uint32_Less(a.n, b.n)
  \/ (a.n = b.n /\ uint256_Compare(a.hash, b.hash) < 0)

\* operator<(const COutPoint&, const COutPoint&)
COutPoint_Less(a, b) ==
  LET Cmp(c) == c < 0 \/ (c = 0 /\ Uint32_Less(a.n, b.n))
  IN  Cmp(uint256_Compare(a.hash, b.hash))

\* operator==(const COutPoint&, const COutPoint&)
COutPoint_Eq(a, b) == a.hash = b.hash /\ a.n = b.n

\* operator!=(const COutPoint&, const COutPoint&)
COutPoint_Ne(a, b) == ~COutPoint_Eq(a, b)

\* CTransaction::IsCoinBase
CTransaction_IsCoinBase(c) ==
  Len(c.t.vin) = 1 /\ COutPoint_IsNull(c.t.vin[1].prevout)

\* the outpoints a caller holds: hashes 0, 1 and 256, indexes 0, 1, 256 and
\* 0xFFFFFFFF
OutPoints ==
  {[hash |-> Uint256(h), n |-> LE(k, SizeInt32)] :
     h \in {0, 1, 256}, k \in {0, 1, 256, -1}}

\* transactions of at most two inputs, each spending the null outpoint, the
\* outpoint (0, 0) or the outpoint (1, 0xFFFFFFFF)
CoinBaseLike ==
  {[CMutableTransaction_New EXCEPT
      !.vin = [i \in 1..Len(ps) |-> [TxInCoinbase EXCEPT !.prevout = ps[i]]]] :
     ps \in SeqsUpTo({COutPoint_Null,
                      [hash |-> Uint256(0), n |-> Int32(0)],
                      [hash |-> Uint256(1), n |-> LE(-1, SizeInt32)]}, MaxIn)}

\* a caller compares the two outpoints it holds
CompareOutPoints ==
  /\ cmp' = [op |-> "COutPoint",
             lt |-> COutPoint_Less(pts.a, pts.b),
             gt |-> COutPoint_Less(pts.b, pts.a),
             eq |-> COutPoint_Eq(pts.a, pts.b),
             ne |-> COutPoint_Ne(pts.a, pts.b),
             aNull |-> COutPoint_IsNull(pts.a)]
  /\ UNCHANGED <<tx, nVersion, stream, wr, rx, rd, pc, hops, alt, rx2, rd2, ctx, enc, cv,
                 pts, ctx2, wtx, chain>>

\* a caller asks whether the transaction is a coinbase
IsCoinBase ==
  /\ cmp' = [op |-> "IsCoinBase", result |-> CTransaction_IsCoinBase(ctx)]
  /\ UNCHANGED <<tx, nVersion, stream, wr, rx, rd, pc, hops, alt, rx2, rd2, ctx, enc, cv,
                 pts, ctx2, wtx, chain>>

InitOutPoint ==
  /\ tx = CMutableTransaction_New
  /\ nVersion = {}
  /\ stream = <<>>
  /\ wr = NoWrite
  /\ rx = CMutableTransaction_New
  /\ rd = NoRead
  /\ pc = "frozen"
  /\ hops = <<>>
  /\ alt = <<>>
  /\ rx2 = CMutableTransaction_New
  /\ rd2 = NoRead
  /\ ctx \in {CTransaction_From(t) : t \in CoinBaseLike}
  /\ enc = {}
  /\ cv = NoValue
  /\ pts \in [a : OutPoints, b : OutPoints]
  /\ cmp = NoCompare
  /\ ctx2 = [t |-> CMutableTransaction_New, hash |-> <<>>]
  /\ wtx = CWalletTx_Init("NULL")
  /\ chain = NoChain

NextOutPoint == CompareOutPoints \/ IsCoinBase

SpecOutPoint == InitOutPoint /\ [][NextOutPoint]_vars

\* ---------------------------------------------------------- CWalletTx
\* CWalletTx::MarkDirty, lines 413-424
CWalletTx_MarkDirty(w) ==
  [w EXCEPT !.cached["fCreditCached"] = FALSE,
            !.cached["fAvailableCreditCached"] = FALSE,
            !.cached["fWatchDebitCached"] = FALSE,
            !.cached["fWatchCreditCached"] = FALSE,
            !.cached["fAvailableWatchCreditCached"] = FALSE,
            !.cached["fImmatureWatchCreditCached"] = FALSE,
            !.cached["fDebitCached"] = FALSE,
            !.cached["fChangeCached"] = FALSE]

\* CWalletTx::BindWallet
CWalletTx_BindWallet(w, pwalletIn) ==
  CWalletTx_MarkDirty([w EXCEPT !.pwallet = pwalletIn])

Wallets == {"NULL", "wallet1", "wallet2"}

\* CWalletTx::Init on the object
WalletInit(p) ==
  /\ wtx' = CWalletTx_Init(p)
  /\ UNCHANGED <<tx, nVersion, stream, wr, rx, rd, pc, hops, alt, rx2, rd2, ctx, enc, cv,
                 pts, cmp, ctx2, chain>>

\* one of the getters of lines 433-441 computes its balance and caches it
Cache(f) ==
  /\ ~wtx.cached[f]
  /\ wtx' = [wtx EXCEPT !.cached[f] = TRUE, !.last = "Get"]
  /\ UNCHANGED <<tx, nVersion, stream, wr, rx, rd, pc, hops, alt, rx2, rd2, ctx, enc, cv,
                 pts, cmp, ctx2, chain>>

\* CWalletTx::MarkDirty on the object
MarkDirty ==
  /\ wtx' = [CWalletTx_MarkDirty(wtx) EXCEPT !.last = "MarkDirty"]
  /\ UNCHANGED <<tx, nVersion, stream, wr, rx, rd, pc, hops, alt, rx2, rd2, ctx, enc, cv,
                 pts, cmp, ctx2, chain>>

\* CWalletTx::BindWallet on the object
BindWallet(p) ==
  /\ wtx' = [CWalletTx_BindWallet(wtx, p) EXCEPT !.last = "BindWallet"]
  /\ UNCHANGED <<tx, nVersion, stream, wr, rx, rd, pc, hops, alt, rx2, rd2, ctx, enc, cv,
                 pts, cmp, ctx2, chain>>

InitWallet ==
  /\ tx = CMutableTransaction_New
  /\ nVersion = {}
  /\ stream = <<>>
  /\ wr = NoWrite
  /\ rx = CMutableTransaction_New
  /\ rd = NoRead
  /\ pc = "built"
  /\ hops = <<>>
  /\ alt = <<>>
  /\ rx2 = CMutableTransaction_New
  /\ rd2 = NoRead
  /\ ctx = [t |-> CMutableTransaction_New, hash |-> <<>>]
  /\ enc = {}
  /\ cv = NoValue
  /\ Untouched

NextWallet ==
  \/ (\E p \in Wallets : WalletInit(p))
  \/ (\E f \in CachedFlags : Cache(f))
  \/ MarkDirty
  \/ (\E p \in Wallets : BindWallet(p))

SpecWallet == InitWallet /\ [][NextWallet]_vars

\* the receiver serializes the transaction it has read, under the nVersion
\* it was read under
Reencode ==
  /\ pc = "read"
  /\ rd.err = NoError
  /\ LET Kept(w) ==
           /\ rx' = w.tx
           /\ enc' = {[nVersion |-> nVersion, err |-> w.err, out |-> w.out]}
     IN  Kept(SerializeTransaction_Write(rx, nVersion))
  /\ pc' = "reencoded"
  /\ UNCHANGED <<tx, nVersion, stream, wr, rd, hops, alt, rx2, rd2, ctx, cv,
                 pts, cmp, ctx2, wtx, chain>>

NextReencode == Serialize \/ (\E f \in PeerFlags : Craft(f)) \/ Unserialize \/ Reencode

SpecReencode == Init /\ [][NextReencode]_vars

\* a caller builds any transaction of Txs with fee 7 and at most one output,
\* also one with more witness entries than inputs
InitAnyWit ==
  /\ tx \in {t \in Txs : t.nTxFee = Int64(7) /\ Len(t.vout) <= 1}
  /\ nVersion \in Modes
  /\ stream = <<>>
  /\ wr = NoWrite
  /\ rx = CMutableTransaction_New
  /\ rd = NoRead
  /\ pc = "built"
  /\ hops = <<>>
  /\ alt = <<>>
  /\ rx2 = CMutableTransaction_New
  /\ rd2 = NoRead
  /\ ctx = [t |-> CMutableTransaction_New, hash |-> <<>>]
  /\ enc = {}
  /\ cv = NoValue
  /\ Untouched

SpecAnyWit == InitAnyWit /\ [][NextReencode]_vars

\* the caller copies tx, then serializes tx under nVersion
EncodeWithCopy ==
  /\ pc = "built"
  /\ rx2' = tx
  /\ LET Written(w) ==
           /\ tx' = w.tx
           /\ stream' = w.out
           /\ wr' = [by |-> "Serialize", err |-> w.err, flags |-> w.flags]
     IN  Written(SerializeTransaction_Write(tx, nVersion))
  /\ pc' = "encoded"
  /\ UNCHANGED <<nVersion, rx, rd, hops, alt, rd2, ctx, enc, cv,
                 pts, cmp, ctx2, wtx, chain>>

SpecFrame == Init /\ [][EncodeWithCopy]_vars

\* ------------------------------------------------ CTransaction equality
\* CTransaction::GetHash
CTransaction_GetHash(c) == c.hash

\* operator== comparing the fields, witness included, as well
CTransaction_Eq_ByFields(a, b) == a.hash = b.hash /\ a.t = b.t

\* operator==(const CTransaction&, const CTransaction&)
CTransaction_Eq(a, b) == a.hash = b.hash

\* operator!=(const CTransaction&, const CTransaction&)
CTransaction_Ne(a, b) == a.hash # b.hash

\* t without the range proofs and nonce commitments of its outputs
WithoutOutputWitness(t) ==
  [t EXCEPT !.vout = [i \in 1..Len(t.vout) |->
                        [t.vout[i] EXCEPT !.nValue.vchRangeproof = <<>>,
                                          !.nValue.vchNonceCommitment = <<>>]]]

\* the transactions a second caller builds next to t: t with any witness,
\* with or without the output witnesses, and t with another lock time
Variants(t) ==
  {[u EXCEPT !.wit = w] :
     u \in {t, WithoutOutputWitness(t)},
     w \in {v \in SeqsUpTo(Stacks, MaxIn) : Len(v) <= Len(t.vin)}}
  \cup {[t EXCEPT !.nLockTime = Int32(0)]}

\* CTransaction(const CMutableTransaction&) for the second object
Construct2(u) ==
  /\ pc = "frozen"
  /\ u \in Variants(ctx.t)
  /\ ctx2' = CTransaction_From(u)
  /\ pc' = "pair"
  /\ UNCHANGED <<tx, nVersion, stream, wr, rx, rd, hops, alt, rx2, rd2, ctx, enc, cv,
                 pts, cmp, wtx, chain>>

\* a caller compares the two CTransaction objects
CompareTx ==
  /\ pc = "pair"
  /\ cmp' = [op |-> "CTransaction",
             eq |-> CTransaction_Eq(ctx, ctx2),
             ne |-> CTransaction_Ne(ctx, ctx2)]
  /\ pc' = "compared"
  /\ UNCHANGED <<tx, nVersion, stream, wr, rx, rd, hops, alt, rx2, rd2, ctx, enc, cv,
                 pts, ctx2, wtx, chain>>

NextEq == Construct \/ (\E u \in Variants(ctx.t) : Construct2(u)) \/ CompareTx

SpecEq == InitHash /\ [][NextEq]_vars

\* -------------------------------------------------------- chain params
CHAINPARAMS_OLD_MAIN == "main"
CHAINPARAMS_ELEMENTS == "elements"
CHAINPARAMS_REGTEST == "elementsregtest"

\* CBaseChainParams::MAIN and CBaseChainParams::REGTEST
CBaseChainParams_MAIN == CHAINPARAMS_OLD_MAIN
CBaseChainParams_REGTEST == CHAINPARAMS_REGTEST

ErrUnknownChain == "Unknown chain"

\* StrHexToScriptWithDefault: the script of a non-empty argument, or the
\* default
StrHexToScriptWithDefault(strScript, defaultScript) ==
  IF strScript # "" THEN strScript ELSE defaultScript

\* CElementsParams(mapArgs), CMainParams(mapArgs), CRegTestParams(mapArgs):
\* the network id and the two scripts that mapArgs can set
CElementsParams(mapArgs) ==
  [strNetworkID |-> CHAINPARAMS_ELEMENTS,
   signblockscript |->
     StrHexToScriptWithDefault(mapArgs.signblockscript, "defaultSignblockScript"),
   fedpegScript |->
     StrHexToScriptWithDefault(mapArgs.fedpegscript, "defaultFedpegScript")]

CMainParams(mapArgs) ==
  [CElementsParams(mapArgs) EXCEPT !.strNetworkID = CHAINPARAMS_OLD_MAIN]

CRegTestParams(mapArgs) ==
  [strNetworkID |-> CHAINPARAMS_REGTEST,
   signblockscript |->
     StrHexToScriptWithDefault(mapArgs.signblockscript, "defaultRegtestScript"),
   fedpegScript |->
     StrHexToScriptWithDefault(mapArgs.fedpegscript, "defaultRegtestScript")]

\* CChainParams::Factory taking every unknown name for the main chain
CChainParams_Factory_DefaultsToMain(chainName, mapArgs) ==
  IF chainName = CHAINPARAMS_ELEMENTS
  THEN [err |-> "none", p |-> <<CElementsParams(mapArgs)>>]
  ELSE IF chainName = CBaseChainParams_REGTEST
  THEN [err |-> "none", p |-> <<CRegTestParams(mapArgs)>>]
  ELSE [err |-> "none", p |-> <<CMainParams(mapArgs)>>]

\* CChainParams::Factory: the new object, or the runtime error thrown
CChainParams_Factory(chainName, mapArgs) ==
  IF chainName = CBaseChainParams_MAIN
  THEN [err |-> "none", p |-> <<CMainParams(mapArgs)>>]
  ELSE IF chainName = CHAINPARAMS_ELEMENTS
  THEN [err |-> "none", p |-> <<CElementsParams(mapArgs)>>]
  ELSE IF chainName = CBaseChainParams_REGTEST
  THEN [err |-> "none", p |-> <<CRegTestParams(mapArgs)>>]
  ELSE [err |-> ErrUnknownChain, p |-> <<>>]

\* the chain names and the arguments a caller passes
Networks == {"main", "elements", "elementsregtest", "regtest", "test", ""}

MapArgs == [signblockscript : {"", "51"}, fedpegscript : {"", "52"}]

\* SelectParams(network, mapArgs).  SelectBaseParams runs first; for a name
\* it does not support it throws (baseThrows) or returns, and then
\* globalChainParams is reset to what Factory returns, unless Factory throws
SelectParams(network, mapArgs, baseThrows) ==
  /\ chain.result # "assert"
  /\ baseThrows => network \notin {CBaseChainParams_MAIN, CHAINPARAMS_ELEMENTS,
                                   CBaseChainParams_REGTEST}
  /\ LET Called(f) ==
           IF baseThrows
           THEN [chain EXCEPT !.op = "SelectParams", !.network = network,
                              !.result = ErrUnknownChain, !.got = <<>>]
           ELSE IF f.err # "none"
           THEN [chain EXCEPT !.op = "SelectParams", !.network = network,
                              !.base = <<network>>,
                              !.result = f.err, !.got = <<>>]
           ELSE [chain EXCEPT !.op = "SelectParams", !.network = network,
                              !.base = <<network>>,
                              !.globalChainParams = f.p,
                              !.result = "ok", !.got = <<>>,
                              !.sel = <<[network |-> network, mapArgs |-> mapArgs]>>]
     IN  chain' = Called(CChainParams_Factory(network, mapArgs))
  /\ UNCHANGED <<tx, nVersion, stream, wr, rx, rd, pc, hops, alt, rx2, rd2, ctx, enc, cv,
                 pts, cmp, ctx2, wtx>>

\* Params(): the assertion fails on an empty globalChainParams
Params ==
  /\ chain.result # "assert"
  /\ chain' = IF chain.globalChainParams = <<>>
              THEN [chain EXCEPT !.op = "Params", !.network = "",
                                 !.result = "assert", !.got = <<>>]
              ELSE [chain EXCEPT !.op = "Params", !.network = "",
                                 !.result = "ok", !.got = chain.globalChainParams]
  /\ UNCHANGED <<tx, nVersion, stream, wr, rx, rd, pc, hops, alt, rx2, rd2, ctx, enc, cv,
                 pts, cmp, ctx2, wtx>>

NextChain ==
  \/ (\E n \in Networks, a \in MapArgs, b \in BOOLEAN : SelectParams(n, a, b))
  \/ Params

SpecChain == InitWallet /\ [][NextChain]_vars

\* ------------------------------------------------------------ the claims

fAllowWitness == SERIALIZE_TRANSACTION_NO_WITNESS \notin nVersion
fIsBitcoinTx == SERIALIZE_BITCOIN_BLOCK_OR_TX \in nVersion

\* Two transactions are equal field by field; an absent witness entry is an
\* empty one (CTxWitness: "In case vtxinwit is missing, all entries are
\* treated as if they were empty CTxInWitnesses").
SameTx(a, b) ==
  /\ a.nVersion = b.nVersion
  /\ a.nTxFee = b.nTxFee
  /\ a.vin = b.vin
  /\ a.vout = b.vout
  /\ Resize(a.wit, Len(a.vin)) = Resize(b.wit, Len(b.vin))
  /\ a.nLockTime = b.nLockTime

NoOutputWitness(t) ==
  \A i \in 1..Len(t.vout) : CTxOutWitnessSerializer_IsNull(t.vout[i])

\* The flags are consistent with the content of t: the native format has a
\* fee field for the fee of t (a fee other than the sentinel); no-witness
\* drops no witness data t holds; the Bitcoin format, which has no fee
\* field, no tag byte and no output witness, drops nothing t holds.
Consistent(t, m) ==
  /\ SERIALIZE_BITCOIN_BLOCK_OR_TX \notin m =>
       t.nTxFee # Int64(TX_FEE_BITCOIN_TX_FLAG)
  /\ SERIALIZE_TRANSACTION_NO_WITNESS \in m =>
       CTxWitness_IsNull(t.wit) /\ NoOutputWitness(t)
  /\ SERIALIZE_BITCOIN_BLOCK_OR_TX \in m =>
       /\ t.nTxFee = Int64(TX_FEE_BITCOIN_TX_FLAG)
       /\ NoOutputWitness(t)
       /\ \A i \in 1..Len(t.vout) : IsInBitcoinTransaction(t.vout[i].nValue)

Sent == wr.by = "Serialize" /\ hops = <<>>

\* C1: round trip. Decoding under F the bytes that encoding T under F
\* produced succeeds and yields T field by field, for every transaction T
\* and every F consistent with T's content.
C1_RoundTrip ==
  (pc = "read" /\ Sent /\ Consistent(tx, nVersion))
    => (rd.err = NoError /\ SameTx(rx, tx))

\* C4: a transaction with no inputs and no flag derived, whatever its
\* outputs, encoded and then decoded with witnesses allowed, comes back as
\* the same transaction.  (The fee is not the sentinel, so that the fee
\* field is on the wire.)
C4_EmptyVinRoundTrip ==
  (/\ pc = "read" /\ Sent
   /\ fAllowWitness /\ ~fIsBitcoinTx
   /\ tx.nTxFee # Int64(TX_FEE_BITCOIN_TX_FLAG)
   /\ tx.vin = <<>> /\ wr.flags = 0)
    => (rd.err = NoError /\ SameTx(rx, tx))

Crafted == wr.by = "Craft" /\ hops = <<>>

\* C3: with witnesses allowed, a stream whose flags byte has the
\* input-witness bit set and whose per-input witness stacks are all empty
\* (any number of inputs, zero included) fails with "Superfluous witness
\* record"; no read that took the input-witness bit ends well with a null
\* witness.
C3_SuperfluousWitness ==
  pc = "read" =>
    /\ (Crafted /\ fAllowWitness /\ HasBit(wr.flags, 1) /\ CTxWitness_IsNull(tx.wit))
         => rd.err = ErrSuperfluousWitness
    /\ (fAllowWitness /\ HasBit(rd.flags, 1) /\ rd.err = NoError)
         => ~CTxWitness_IsNull(rx.wit)

\* C3 happens: flags byte 1, one input, its witness stack empty, refused
C3_Witness ==
  /\ pc = "read" /\ Crafted /\ nVersion = {}
  /\ wr.flags = 1 /\ Len(tx.vin) = 1 /\ CTxWitness_IsNull(tx.wit)
  /\ rd.err = ErrSuperfluousWitness

\* the witness data of a peer's stream is what its flags byte announces:
\* a non-null witness if bit 0, a non-null output witness if bit 1
AnnouncedDataPresent ==
  /\ HasBit(wr.flags, 1) => ~CTxWitness_IsNull(tx.wit)
  /\ (HasBit(wr.flags, 2) /\ ~fIsBitcoinTx) => ~NoOutputWitness(tx)

\* C7: a read never ends well with a flags bit left set, so no stream whose
\* flags byte has a bit other than bits 0 and 1 is accepted; when the
\* witness data the byte announces is there, the error is "Unknown
\* transaction optional data".
C7_UnknownFlags ==
  pc = "read" =>
    /\ (rd.flagsLeft # 0 \/ rd.flags >= 4) => rd.err # NoError
    /\ (Crafted /\ fAllowWitness /\ wr.flags >= 4 /\ AnnouncedDataPresent)
         => rd.err = ErrUnknownOptionalData

\* C7 happens: flags byte 5 with a non-null witness, refused for bit 2
C7_Witness ==
  /\ pc = "read" /\ Crafted /\ nVersion = {}
  /\ wr.flags = 5 /\ ~CTxWitness_IsNull(tx.wit)
  /\ rd.err = ErrUnknownOptionalData

\* C8: native mode, witnesses allowed: a stream whose flags byte has the
\* output-witness bit set and whose output witness records are all null
\* (zero outputs included) fails with "Superfluous output witness record",
\* once the read has reached these records.
C8_SuperfluousOutputWitness ==
  (/\ pc = "read" /\ Crafted /\ fAllowWitness /\ ~fIsBitcoinTx
   /\ HasBit(wr.flags, 2) /\ NoOutputWitness(tx)
   /\ (HasBit(wr.flags, 1) => ~CTxWitness_IsNull(tx.wit)))
    => rd.err = ErrSuperfluousOutputWitness

\* C8 happens: flags byte 2 and no output at all
C8_Witness ==
  /\ pc = "read" /\ Crafted /\ nVersion = {}
  /\ wr.flags = 2 /\ tx.vout = <<>> /\ tx.vin # <<>>
  /\ rd.err = ErrSuperfluousOutputWitness

\* the outputs of rx are those of tx, position by position; under the
\* Bitcoin format: their amounts and scripts
OutputsRecovered ==
  IF fIsBitcoinTx
  THEN /\ Len(rx.vout) = Len(tx.vout)
       /\ \A i \in 1..Len(tx.vout) :
            /\ IsAmount(rx.vout[i].nValue)
            /\ GetAmount(rx.vout[i].nValue) = GetAmount(tx.vout[i].nValue)
            /\ rx.vout[i].scriptPubKey = tx.vout[i].scriptPubKey
  ELSE rx.vout = tx.vout

\* C9: with witnesses allowed the encoder sets bit 0 iff the witness is
\* non-null and bit 1 iff the format is not Bitcoin's and some output has a
\* non-null output witness; decoding the result recovers those flags and
\* the outputs in their positions.  (Stated for the transactions whose fee
\* is on the wire in the native format.)
C9_FlagsRecovered ==
  (/\ pc = "read" /\ Sent /\ fAllowWitness
   /\ (~fIsBitcoinTx => tx.nTxFee # Int64(TX_FEE_BITCOIN_TX_FLAG))) =>
    /\ HasBit(wr.flags, 1) <=> ~CTxWitness_IsNull(tx.wit)
    /\ HasBit(wr.flags, 2) <=> (~fIsBitcoinTx /\ ~NoOutputWitness(tx))
    /\ rd.err = NoError
    /\ rd.flags = wr.flags
    /\ OutputsRecovered

\* the basic layout: version, fee (native format, fee not the sentinel),
\* inputs, outputs, lock time
BasicLayout(t, m) ==
  t.nVersion
  \o (IF SERIALIZE_BITCOIN_BLOCK_OR_TX \in m
         \/ t.nTxFee = Int64(TX_FEE_BITCOIN_TX_FLAG)
      THEN <<>> ELSE t.nTxFee)
  \o WriteVin(t.vin) \o WriteVout(t.vout, m).out \o t.nLockTime

\* C10: with no-witness forced the encoder derives no flag and emits the
\* basic layout, whatever witness and range proof data the transaction
\* holds; it emits the same layout whenever it derives no flag.
C10_NoWitnessLayout ==
  (pc = "wire" /\ Sent) =>
    /\ ~fAllowWitness => wr.flags = 0
    /\ wr.flags = 0 => stream = BasicLayout(tx, nVersion)

\* C10 happens: a transaction with a witness and an output witness,
\* serialized with no-witness forced
C10_Witness ==
  /\ pc = "wire" /\ Sent /\ ~fAllowWitness
  /\ ~CTxWitness_IsNull(tx.wit) /\ ~NoOutputWitness(tx)

Accepted(r) == r.err = NoError /\ r.rest = <<>>

\* C2: under one nVersion, two byte strings that both decode, each to its
\* last byte, to the same transaction content are the same byte string.
C2_CanonicalUniqueness ==
  (pc = "both" /\ Accepted(rd) /\ Accepted(rd2) /\ SameTx(rx, rx2))
    => alt = stream

\* C2 happens: two different byte strings are both accepted (and their
\* contents differ)
C2_Witness ==
  /\ pc = "both" /\ Accepted(rd) /\ Accepted(rd2)
  /\ alt # stream /\ rx.vin # <<>>

Amounts(t) == [i \in 1..Len(t.vout) |-> GetAmount(t.vout[i].nValue)]

AllAmounts(t) == \A i \in 1..Len(t.vout) : IsAmount(t.vout[i].nValue)

\* C5: a transaction whose outputs are all explicit amounts, encoded and
\* decoded under the Bitcoin format, has the sentinel as fee and its
\* amounts; re-encoded by its receiver under the native format and
\* decoded under the native format, it has the sentinel as fee and the same
\* amounts again.  (Stated for the transactions that have an input.)
C5_BitcoinRoundTrip ==
  (pc = "read" /\ wr.by = "Serialize" /\ tx.vin # <<>>) =>
    /\ (hops = <<>> /\ fIsBitcoinTx) =>
         /\ rd.err = NoError
         /\ rx.nTxFee = Int64(TX_FEE_BITCOIN_TX_FLAG)
         /\ AllAmounts(rx) /\ Amounts(rx) = Amounts(tx)
    /\ (/\ Len(hops) = 1
        /\ SERIALIZE_BITCOIN_BLOCK_OR_TX \in hops[1]
        /\ ~fIsBitcoinTx) =>
         /\ rd.err = NoError
         /\ rx.nTxFee = Int64(TX_FEE_BITCOIN_TX_FLAG)
         /\ AllAmounts(rx) /\ Amounts(rx) = Amounts(tx)

\* C6: two transactions that differ only in their input witness stacks
\* (tx, and the CTransaction built from it whose wit was changed) have the
\* same id pre-image, which the cached id still is, and different witness
\* hash pre-images.
C6_IdIgnoresWitness ==
  pc = "rewit" =>
    /\ ctx.hash = ComputeHash(ctx.t)
    /\ ComputeHash(ctx.t) = ComputeHash(tx)
    /\ Resize(ctx.t.wit, Len(tx.vin)) # Resize(tx.wit, Len(tx.vin))
         => GetWitnessHash(ctx.t) # GetWitnessHash(tx)

\* C6 happens: both transactions have a non-null witness, and they differ
C6_Witness ==
  /\ pc = "rewit"
  /\ ~CTxWitness_IsNull(tx.wit)
  /\ ctx.t.wit # tx.wit
  /\ GetWitnessHash(ctx.t) # GetWitnessHash(tx)

StartsWith(s, p) == Len(s) >= Len(p) /\ SubSeq(s, 1, Len(p)) = p

\* the dummy marker and the flags byte, when a flag is derived
Marker(flags) == IF flags # 0 THEN <<0, flags>> ELSE <<>>

\* C11: in the native format the encoder emits the 8-byte fee right after
\* the version unless the fee is the sentinel, and then omits the field (the
\* stream is that of the same transaction with fee 7, less the fee bytes);
\* a transaction whose fee is the sentinel, encoded and decoded in the native
\* format, comes back with the sentinel as fee and its other fields.
\* (Stated for the transactions that have an input.)
C11_FeeSentinelNative ==
  (Sent /\ ~fIsBitcoinTx /\ tx.vin # <<>> /\ pc \in {"wire", "read"}) =>
    /\ tx.nTxFee # Int64(TX_FEE_BITCOIN_TX_FLAG) =>
         StartsWith(stream, tx.nVersion \o tx.nTxFee)
    /\ tx.nTxFee = Int64(TX_FEE_BITCOIN_TX_FLAG) =>
         SerializeTransaction_Write([tx EXCEPT !.nTxFee = Int64(7)], nVersion).out
           = SubSeq(stream, 1, SizeInt32) \o Int64(7)
             \o SubSeq(stream, SizeInt32 + 1, Len(stream))
    /\ (pc = "read" /\ tx.nTxFee = Int64(TX_FEE_BITCOIN_TX_FLAG)) =>
         (rd.err = NoError /\ SameTx(rx, tx))

\* C12: in the Bitcoin format the encoder emits no fee field whatever the
\* fee (the marker or the input list follows the version), and the decoder
\* sets the fee to the sentinel without consuming a byte for it (the inputs
\* of an encoded transaction are read back from right after the version).
C12_NoFeeInBitcoinFormat ==
  fIsBitcoinTx =>
    /\ (Sent /\ pc \in {"wire", "read"}) =>
         StartsWith(stream, tx.nVersion \o Marker(wr.flags) \o WriteVin(tx.vin))
    /\ (pc = "read" /\ Len(stream) >= SizeInt32) =>
         rx.nTxFee = Int64(TX_FEE_BITCOIN_TX_FLAG)
    /\ (pc = "read" /\ Sent /\ tx.vin # <<>>) =>
         (rd.err = NoError /\ rd.rest = <<>> /\ rx.vin = tx.vin)

\* C12 happens: a transaction with fee 7 and an input went through the
\* Bitcoin format and came back with the sentinel as fee
C12_Witness ==
  /\ pc = "read" /\ Sent /\ fIsBitcoinTx
  /\ tx.nTxFee = Int64(7) /\ tx.vin # <<>>
  /\ rd.err = NoError /\ rx.nTxFee = Int64(TX_FEE_BITCOIN_TX_FLAG)

\* C13: every later encoding of a transaction under the nVersion of its
\* first encoding has the bytes (and the outcome) of the first, whatever
\* encodings under other nVersions came in between; any two encodings under
\* one nVersion are the same.
C13_EncodeRepeatable ==
  /\ \A e \in enc : e.nVersion = nVersion => (e.out = stream /\ e.err = wr.err)
  /\ \A e1, e2 \in enc : e1.nVersion = e2.nVersion => e1 = e2

\* C13 happens: a transaction with a witness shorter than its input list
\* was encoded under all four nVersions after its first encoding
C13_Witness ==
  /\ pc = "again" /\ nVersion = {}
  /\ Cardinality(enc) = Cardinality(Modes)
  /\ ~CTxWitness_IsNull(tx.wit)
  /\ \E e \in enc : e.nVersion = nVersion /\ e.out = stream /\ e.err = NoError

C15_CachedId ==
  pc \in {"frozen", "assigned", "rewit", "ctxread"} =>
    ctx.hash = ComputeHash(ctx.t)

\* the bytes of cv.s the read of the value consumed
ValueBytesRead == Len(cv.s) - Len(cv.rd.rest)

\* C16: in the native format the read of a value takes one tag byte and
\* then, by tag, 8 more bytes for tags 0 and 1 (a buffer of 9), none for tags
\* 2 and 3, 32 more for tags 8 and 9 (a buffer of 33), and for any other tag
\* none, with a buffer of 1 byte and no error; for every tag 0..255 and
\* whatever value the target held before.
C16_NativeValueRead ==
  (cv.pc \in {"read", "written"} /\ ~fIsBitcoinTx) =>
    /\ cv.rd.err = NoError
    /\ cv.rd.val.vchCommitment[1] = cv.s[1]
    /\ cv.s[1] \in {0, 1} =>
         (ValueBytesRead = nExplicitSize
          /\ Len(cv.rd.val.vchCommitment) = nExplicitSize)
    /\ cv.s[1] \in {2, 3} => ValueBytesRead = 1
    /\ cv.s[1] \in {8, 9} =>
         (ValueBytesRead = nCommittedSize
          /\ Len(cv.rd.val.vchCommitment) = nCommittedSize)
    /\ cv.s[1] \notin {0, 1, 2, 3, 8, 9} =>
         (ValueBytesRead = 1 /\ Len(cv.rd.val.vchCommitment) = 1)

\* C17: in the native format the write of a value emits its commitment
\* buffer as it is, for every tag, tag 0 included; a value read in the native
\* format (into a default-constructed target) is written back in the native
\* format as the bytes it was read from.
C17_NativeValueWrite ==
  (cv.pc = "written" /\ ~fIsBitcoinTx /\ CTxOutValue_IsNull(cv.held)) =>
    /\ cv.wr.err = NoError
    /\ cv.wr.out = cv.rd.val.vchCommitment
    /\ cv.wr.out = SubSeq(cv.s, 1, ValueBytesRead)

\* the outputs of t that are no amounts, and the bytes of a transaction
\* written in the Bitcoin format up to (not including) output k
NonAmounts(t) == {i \in 1..Len(t.vout) : ~IsAmount(t.vout[i].nValue)}

BitcoinBytesBefore(t, flags, k) ==
  t.nVersion \o Marker(flags) \o WriteVin(t.vin) \o WriteCompactSize(Len(t.vout))
  \o Concat([i \in 1..(k - 1) |->
               GetAmount(t.vout[i].nValue) \o WriteBytes(t.vout[i].scriptPubKey)])

\* C18: in the Bitcoin format the write of a value that is no amount fails
\* and emits no byte of it, and the write of a transaction that has such an
\* output fails at its first such output, with nothing of that output or
\* after it emitted; an explicit amount is written as the 8 bytes of its
\* integer and read back as a value that is an amount, the same one.
C18_WriteMisuse ==
  fIsBitcoinTx =>
    /\ (cv.pc \in {"wrote", "readback"} /\ ~IsAmount(cv.held)) =>
         (cv.wr.err = ErrNotAmount /\ cv.wr.out = <<>>)
    /\ (wr.by = "Serialize" /\ NonAmounts(tx) # {}) =>
         /\ wr.err = ErrNotAmount
         /\ \E k \in NonAmounts(tx) :
              /\ \A j \in NonAmounts(tx) : k <= j
              /\ stream = BitcoinBytesBefore(tx, wr.flags, k)
    /\ (cv.pc \in {"wrote", "readback"} /\ IsAmount(cv.held)) =>
         /\ cv.wr.err = NoError
         /\ cv.wr.out = GetAmount(cv.held)
         /\ Len(cv.wr.out) = SizeInt64
    /\ (cv.pc = "readback" /\ IsAmount(cv.held)) =>
         /\ cv.rd.err = NoError /\ cv.rd.rest = <<>>
         /\ IsAmount(cv.rd.val)
         /\ GetAmount(cv.rd.val) = GetAmount(cv.held)

\* C18 happens: of a transaction with the explicit amount 5 and a commitment
\* as outputs, the amount was written as 05 00 00 00 00 00 00 00 and read
\* back, and the write of the transaction failed
C18_Witness ==
  /\ fIsBitcoinTx
  /\ cv.pc = "readback" /\ cv.held = TxOutExplicit.nValue
  /\ cv.wr.out = Int64(5) /\ GetAmount(cv.rd.val) = Int64(5)
  /\ tx.vout = <<TxOutExplicit, TxOutCommitted>>
  /\ pc = "failed" /\ wr.err = ErrNotAmount

\* C19: the decoding of a proper prefix of a stream that Serialize made,
\* under the same nVersion, fails with an error.
C19_TruncatedFails ==
  (pc = "read" /\ wr.by = "Truncate") => rd.err # NoError

\* the extended layout of t after its head, flags byte f: the empty input
\* list and f, the inputs, the outputs, one stack per input if bit 0 of f is
\* set, one proof and nonce per output if bit 1 is set, the lock time
ExtendedLayout(t, f, m) ==
  <<0>> \o <<f>>
  \o WriteVin(t.vin)
  \o WriteVout(t.vout, m).out
  \o (IF HasBit(f, 1)
      THEN Concat([i \in 1..Len(t.vin) |->
                     WriteCompactSize(Len(t.wit[i]))
                     \o Concat([j \in 1..Len(t.wit[i]) |-> WriteBytes(t.wit[i][j])])])
      ELSE <<>>)
  \o (IF HasBit(f, 2)
      THEN Concat([i \in 1..Len(t.vout) |->
                     WriteBytes(t.vout[i].nValue.vchRangeproof)
                     \o WriteBytes(t.vout[i].nValue.vchNonceCommitment)])
      ELSE <<>>)
  \o t.nLockTime

\* C20: a stream that Serialize made with a flag derived has, after the
\* version and the fee field, the empty input list, the non-zero flags byte,
\* the inputs, the outputs, one input witness per input (bit 0), one
\* output-witness record per output, null ones included (bit 1), and the
\* lock time; no flag is derived when SERIALIZE_TRANSACTION_NO_WITNESS is set.
C20_ExtendedLayout ==
  (pc \in {"wire", "read"} /\ wr.by = "Serialize" /\ wr.flags # 0) =>
    /\ fAllowWitness
    /\ wr.flags \in 1..3
    /\ Len(tx.wit) = (IF HasBit(wr.flags, 1) THEN Len(tx.vin) ELSE Len(tx.wit))
    /\ \E head \in {tx.nVersion, tx.nVersion \o tx.nTxFee} :
         stream = head \o ExtendedLayout(tx, wr.flags, nVersion)

\* C20 happens: both flags derived, two inputs of which the second has an
\* empty stack, and among the outputs one with and one without a proof or
\* nonce
C20_Witness ==
  /\ pc = "wire" /\ wr.by = "Serialize" /\ wr.flags = 3
  /\ Len(tx.vin) = 2 /\ Len(tx.wit) = 2
  /\ tx.wit[1] # <<>> /\ tx.wit[2] = <<>>
  /\ \E i \in 1..Len(tx.vout) : CTxOutWitnessSerializer_IsNull(tx.vout[i])
  /\ \E i \in 1..Len(tx.vout) : ~CTxOutWitnessSerializer_IsNull(tx.vout[i])
  /\ stream = tx.nVersion \o tx.nTxFee \o ExtendedLayout(tx, 3, nVersion)

\* the Bitcoin-format stream of t, flags byte f: the version, the marker,
\* the lists, the input witnesses (bit 0), the lock time; no proof, no nonce
BitcoinLayout(t, f, m) ==
  t.nVersion \o Marker(f) \o WriteVin(t.vin) \o WriteVout(t.vout, m).out
  \o (IF HasBit(f, 1)
      THEN Concat([i \in 1..Len(t.vin) |->
                     CTxInWitness_Write(Resize(t.wit, Len(t.vin))[i])])
      ELSE <<>>)
  \o t.nLockTime

\* C21: with SERIALIZE_BITCOIN_BLOCK_OR_TX the encoder never derives bit 1
\* and its stream holds no proof and no nonce, whatever the outputs carry;
\* every read leaves every output without proof and nonce; and the read of a
\* stream whose flags byte (read as such) has bit 1 set ends with an error.
C21_NoOutputWitnessInBitcoin ==
  fIsBitcoinTx =>
    /\ wr.by = "Serialize" =>
         /\ ~HasBit(wr.flags, 2)
         /\ StartsWith(BitcoinLayout(tx, wr.flags, nVersion), stream)
         /\ wr.err = NoError => stream = BitcoinLayout(tx, wr.flags, nVersion)
    /\ pc = "read" =>
         /\ \A i \in 1..Len(rx.vout) : CTxOutWitnessSerializer_IsNull(rx.vout[i])
         /\ HasBit(rd.flags, 2) => rd.err # NoError

\* C21 happens: a peer's Bitcoin-format stream with bit 1 set, the nonce of
\* its output in it, was rejected as unknown optional data, the output read
\* without the nonce
C21_Witness ==
  /\ fIsBitcoinTx /\ fAllowWitness
  /\ \E i \in 1..Len(tx.vout) : tx.vout[i] = TxOutNonce
  /\ wr.by = "Craft" /\ pc = "read" /\ wr.flags = 2 /\ rd.flags = 2
  /\ rd.err = ErrUnknownOptionalData
  /\ Len(rx.vout) = Len(tx.vout)

\* C22: a == b iff hash and index are equal, a != b is its negation, a < b
\* iff a's hash is before b's or the hashes are equal and a's index is the
\* smaller number, so exactly one of a < b, a == b, b < a holds; an outpoint
\* is null iff its hash is zero and its index 0xFFFFFFFF; a transaction is a
\* coinbase iff it has one input and that input spends the null outpoint.
C22_OutPointOrder ==
  /\ cmp.op = "COutPoint" =>
       /\ cmp.eq = (pts.a = pts.b)
       /\ cmp.ne = ~cmp.eq
       /\ cmp.lt = (\/ uint256_Compare(pts.a.hash, pts.b.hash) < 0
                    \/ /\ pts.a.hash = pts.b.hash
                       /\ \E i \in 1..4 :
                            /\ pts.a.n[i] < pts.b.n[i]
                            /\ \A j \in (i + 1)..4 : pts.a.n[j] = pts.b.n[j])
       /\ Cardinality({r \in {"lt", "eq", "gt"} : cmp[r]}) = 1
       /\ cmp.aNull = (pts.a = [hash |-> [i \in 1..32 |-> 0],
                                n |-> <<255, 255, 255, 255>>])
  /\ cmp.op = "IsCoinBase" =>
       cmp.result = (/\ Len(ctx.t.vin) = 1
                     /\ ctx.t.vin[1].prevout = [hash |-> [i \in 1..32 |-> 0],
                                                n |-> <<255, 255, 255, 255>>])

\* C22 happens: (1, 256) was compared with (1, 0xFFFFFFFF) and found smaller
C22_Witness ==
  /\ cmp.op = "COutPoint"
  /\ pts.a = [hash |-> Uint256(1), n |-> Int32(256)]
  /\ pts.b = [hash |-> Uint256(1), n |-> LE(-1, SizeInt32)]
  /\ cmp.lt /\ ~cmp.gt /\ ~cmp.eq /\ cmp.ne /\ ~cmp.aNull

\* the bytes of the stream from position k on, and the number of bytes the
\* decoder takes as version and fee
From(k) == SubSeq(stream, k, Len(stream))

HeadLen == IF fIsBitcoinTx THEN SizeInt32 ELSE SizeInt32 + SizeInt64

\* C23: with witnesses allowed, when the byte after the head is 0 (the first
\* input list is empty) and the next byte, read as flags, is 0, the decoder
\* reads no list: no inputs, no outputs, no witness, and the lock time is the
\* 4 bytes right after the flags byte; when the first input list decodes
\* non-empty, the output list and the lock time are read right after it, no
\* flags byte and no witness in between.
C23_FirstInputListBranch ==
  (pc = "read" /\ fAllowWitness) =>
    /\ (Len(stream) >= HeadLen + 2 /\ stream[HeadLen + 1] = 0
        /\ stream[HeadLen + 2] = 0) =>
         /\ rd.flags = 0
         /\ rx.vin = <<>> /\ rx.vout = <<>> /\ rx.wit = <<>>
         /\ IF Len(stream) >= HeadLen + 6
            THEN /\ rd.err = NoError
                 /\ rx.nLockTime = SubSeq(stream, HeadLen + 3, HeadLen + 6)
                 /\ rd.rest = From(HeadLen + 7)
            ELSE rd.err = ErrEndOfData
    /\ (Len(stream) >= HeadLen + 1 /\ stream[HeadLen + 1] # 0
        /\ ReadVin(Reader(From(HeadLen + 1))).err = NoError) =>
         LET Legacy(vin, vout, lock) ==
               /\ rx.vin = vin.val /\ Len(rx.vin) > 0
               /\ rd.flags = 0 /\ rx.wit = <<>>
               /\ vout.err = NoError => rx.vout = vout.val
               /\ rd.err = lock.err
               /\ rd.rest = lock.rest
               /\ lock.err = NoError => rx.nLockTime = lock.val
             AfterVout(vin, vout) == Legacy(vin, vout, ReadBytes(vout, SizeInt32))
             AfterVin(vin) == AfterVout(vin, ReadVout(vin, nVersion))
         IN  AfterVin(ReadVin(Reader(From(HeadLen + 1))))

\* C23 happens: a peer's stream with the marker and flags byte 0 before two
\* inputs was read as a transaction without inputs and outputs, its lock
\* time taken from the bytes of the first input
C23_Witness ==
  /\ pc = "read" /\ fAllowWitness /\ wr.by = "Craft" /\ wr.flags = 0
  /\ Len(tx.vin) = 2
  /\ rd.err = NoError /\ rx.vin = <<>> /\ rx.vout = <<>>
  /\ rx.nLockTime = SubSeq(stream, HeadLen + 3, HeadLen + 6)
  /\ rx.nLockTime # tx.nLockTime /\ rd.rest # <<>>

\* C24: after CWalletTx::Init, MarkDirty and BindWallet every one of the
\* nine cached-balance flags of the wallet transaction is false.
C24_MarkDirtyClearsAll ==
  wtx.last \in {"Init", "MarkDirty", "BindWallet"} =>
    \A f \in CachedFlags : ~wtx.cached[f]

\* C25: the transaction read without error from a stream, serialized
\* under the same nVersion, gives the bytes the read consumed.
C25_ReencodeIdentity ==
  pc = "reencoded" =>
    \A e \in enc : e.err = NoError /\ e.out \o rd.rest = stream

\* C26: a read that ends without error leaves one witness entry per input
\* when it handled the input-witness bit and none otherwise; the write of a
\* transaction so read never fails the assertion of line 507; the write of a
\* caller's transaction fails it exactly when the transaction has more
\* witness entries than inputs.
C26_WitSizeAfterDecode ==
  /\ (pc = "read" /\ rd.err = NoError) =>
       Len(rx.wit) = (IF HasBit(rd.flags, 1) /\ fAllowWitness
                      THEN Len(rx.vin) ELSE 0)
  /\ pc = "reencoded" => \A e \in enc : e.err # ErrAssertWitSize
  /\ wr.by = "Serialize" =>
       ((wr.err = ErrAssertWitSize) <=> (Len(tx.wit) > Len(tx.vin)))

\* C26 happens: a transaction of two inputs and one witness entry was
\* written and read with two witness entries, and written again
C26_Witness ==
  /\ pc = "reencoded" /\ wr.by = "Serialize" /\ HasBit(rd.flags, 1)
  /\ Len(rx.vin) = 2 /\ Len(rx.wit) = 2 /\ rx.wit[2] = <<>>
  /\ \A e \in enc : e.err = NoError /\ e.out = stream

\* the outputs of a and b agree in value and script
SameValuesAndScripts(a, b) ==
  /\ Len(a.vout) = Len(b.vout)
  /\ \A i \in 1..Len(a.vout) :
       /\ a.vout[i].nValue.vchCommitment = b.vout[i].nValue.vchCommitment
       /\ a.vout[i].scriptPubKey = b.vout[i].scriptPubKey

\* C27: under SERIALIZE_TRANSACTION_NO_WITNESS no read takes a flags byte
\* or witness data, so the transaction read has a null witness and outputs
\* without proof and nonce; and a transaction written and read under that
\* flag (native format) comes back with its version, fee, inputs, output
\* values and scripts and lock time, whether or not it has inputs.
C27_NoWitnessRoundTrip ==
  (pc = "read" /\ ~fAllowWitness) =>
    /\ rd.flags = 0
    /\ rx.wit = <<>>
    /\ \A i \in 1..Len(rx.vout) : CTxOutWitnessSerializer_IsNull(rx.vout[i])
    /\ (wr.by = "Serialize" /\ ~fIsBitcoinTx) =>
         /\ rd.err = NoError /\ rd.rest = <<>>
         /\ rx.nVersion = tx.nVersion
         /\ rx.nTxFee = tx.nTxFee
         /\ rx.vin = tx.vin
         /\ SameValuesAndScripts(rx, tx)
         /\ rx.nLockTime = tx.nLockTime

\* C28: after a transaction was serialized, under any nVersion, each of its
\* fields is what it was before the call, the number of witness entries
\* included.
C28_EncodeLeavesTx ==
  pc = "encoded" =>
    /\ tx.nVersion = rx2.nVersion /\ tx.nTxFee = rx2.nTxFee
    /\ tx.vin = rx2.vin /\ tx.vout = rx2.vout
    /\ tx.nLockTime = rx2.nLockTime
    /\ Len(tx.wit) = Len(rx2.wit)
    /\ tx.wit = rx2.wit

\* C29: a == b on CTransaction is the equality of the cached ids, a != b
\* its negation, and two transactions that agree in version, fee, inputs,
\* output values and scripts and lock time compare equal whatever their
\* witness stacks, range proofs and nonce commitments.
C29_EqualityById ==
  cmp.op = "CTransaction" =>
    /\ cmp.eq = (CTransaction_GetHash(ctx) = CTransaction_GetHash(ctx2))
    /\ cmp.ne = ~cmp.eq
    /\ (/\ ctx.t.nVersion = ctx2.t.nVersion /\ ctx.t.nTxFee = ctx2.t.nTxFee
        /\ ctx.t.vin = ctx2.t.vin /\ SameValuesAndScripts(ctx.t, ctx2.t)
        /\ ctx.t.nLockTime = ctx2.t.nLockTime) => cmp.eq

\* C29 happens: two transactions that differ in their witness stacks and in
\* the nonce commitment of an output compared equal, a != b false
C29_Witness ==
  /\ cmp.op = "CTransaction" /\ cmp.eq /\ ~cmp.ne
  /\ ctx.t.wit # ctx2.t.wit
  /\ \E i \in 1..Len(ctx.t.vout) :
       /\ ctx.t.vout[i] = TxOutNonce
       /\ ctx2.t.vout[i].nValue.vchNonceCommitment = <<>>

\* what C30 says of the state after a call
C30_AfterCall ==
  /\ chain.op = "Params" =>
       IF chain.sel = <<>>
       THEN chain.result = "assert"
       ELSE /\ chain.result = "ok"
            /\ Len(chain.got) = 1
            /\ chain.got[1].strNetworkID = chain.sel[1].network
            /\ chain.got = CChainParams_Factory(chain.sel[1].network,
                                                chain.sel[1].mapArgs).p
  /\ chain.op = "SelectParams" =>
       /\ chain.network \notin {"main", "elements", "elementsregtest"} =>
            chain.result = "Unknown chain"
       /\ chain.network \in {"main", "elements", "elementsregtest"} =>
            (chain.result = "ok" /\ chain.sel[1].network = chain.network)

\* what C30 says of a call: SelectParams of an unknown chain leaves
\* globalChainParams as it was
C30_Call ==
  (chain'.op = "SelectParams" /\ chain'.result = "Unknown chain") =>
    /\ chain'.globalChainParams = chain.globalChainParams
    /\ chain'.sel = chain.sel

\* C30: Params() fails its assertion exactly when no SelectParams has
\* completed, and otherwise returns the parameters of the chain last
\* selected; SelectParams of a name other than main, elements and
\* elementsregtest ends with 'Unknown chain' and leaves globalChainParams
\* unchanged, and SelectParams of one of the three completes.
C30_ChainSelection == []C30_AfterCall /\ [][C30_Call]_vars

\* C30 happens: after elementsregtest was selected and a SelectParams of
\* 'regtest' ended with 'Unknown chain', Params() returned the
\* elementsregtest parameters
C30_Witness ==
  /\ chain.op = "Params" /\ chain.result = "ok"
  /\ chain.got[1].strNetworkID = "elementsregtest"
  /\ chain.base = <<"regtest">>
  /\ chain.sel[1].network = "elementsregtest"

=============================================================================
